---- MODULE Spec2Model ----
(***************************************************************************)
(* Model of generate_compat_data.js, the generator of the Thunderbird      *)
(* WebExtension compat data: cloneBrowserCompatData, updateCompatData      *)
(* (with its closures newEntry, detectNotation and handleEntry),           *)
(* overrideBrowserCompatData, reduceBrowserCompatData and the part of      *)
(* main() that drives them.                                                *)
(*                                                                         *)
(* A compat tree is a function from key paths (sequences of object keys,   *)
(* <<>> being the `webextensions` object) to nodes; a node records whether *)
(* it has a __compat.support object and, if so, the support object as a    *)
(* function vendor -> version_added.  Dotted entry paths are real strings, *)
(* split and joined as the code does.                                      *)
(***************************************************************************)
EXTENDS Integers, Sequences, FiniteSets, TLC

VARIABLES
    bcd,                  \* the baseline dataset, bcd.webextensions
    tcd,                  \* the generated tree, tcd.webextensions
    override,             \* the override file, override.webextensions
    browser_compat_data,  \* main(): sortKeys(mergeObjects(bcd, tcd)).webextensions
    logEntries,           \* main(): updateCompatDataLogEntries
    modified,             \* the value returned by overrideBrowserCompatData
    mail_entries,         \* main(): the entries of the mail schemas
    errors,               \* the paths checkForMissingThunderbirdEntries reported
    pc,                   \* position in main()
    call,                 \* the last call made: its name and arguments
    before,               \* the tree the last call was applied to
    nCalls,               \* number of calls made so far
    ran,                  \* main(): the functions called so far
    namespaces,           \* the namespace objects read from the schema files
    entries,              \* the entry map filled by the last namespace walk
    schemaCall            \* the last call made on the schemas, and what it did

vars == <<bcd, tcd, override, browser_compat_data, logEntries, modified,
          mail_entries, errors, pc, call, before, nCalls, ran,
          namespaces, entries, schemaCall>>

schemaVars == <<namespaces, entries, schemaCall>>

mainVars == <<bcd, tcd, override, browser_compat_data, logEntries, modified,
              mail_entries, errors, pc, call, before, nCalls, ran>>

-----------------------------------------------------------------------------
(* JavaScript values of version_added.  The booleans and undefined are     *)
(* tagged strings, so that they compare with version strings as === does.  *)

VFalse == "false"
VTrue == "true"
Undefined == "undefined"
VersionStrings == {"5", "10"}
Versions == {VFalse, VTrue} \cup VersionStrings

\* JavaScript truthiness of a version_added value.
Truthy(v) == v \notin {VFalse, Undefined, ""}

\* typeof v === "string"
IsString(v) == v \notin {VFalse, VTrue, Undefined}

-----------------------------------------------------------------------------
(* Strings.                                                                *)

StartsWith(s, p) == Len(p) <= Len(s) /\ SubSeq(s, 1, Len(p)) = p

EndsWith(s, p) ==
    Len(p) <= Len(s) /\ SubSeq(s, Len(s) - Len(p) + 1, Len(s)) = p

\* The positions of the dots of s, in order.
DotsOf(s) == SelectSeq([i \in 1..Len(s) |-> i], LAMBDA i : SubSeq(s, i, i) = ".")

\* s.split(".")
Split(s) ==
    LET dots == DotsOf(s)
    IN  [k \in 1..(Len(dots) + 1) |->
            SubSeq(s, IF k = 1 THEN 1 ELSE dots[k - 1] + 1,
                      IF k > Len(dots) THEN Len(s) ELSE dots[k] - 1)]

RECURSIVE Join(_)
\* parts.join(".")
Join(parts) ==
    IF Len(parts) = 0 THEN ""
    ELSE IF Len(parts) = 1 THEN parts[1]
    ELSE parts[1] \o "." \o Join(Tail(parts))

\* parts[i] of a JavaScript array, 0-based; undefined is modelled as "",
\* which is falsy like undefined and joins like undefined.
Part(parts, i) == IF i + 1 <= Len(parts) THEN parts[i + 1] ELSE ""

-----------------------------------------------------------------------------
(* Compat trees.                                                           *)

NoSupport == <<>>

\* An object without __compat.support.
EmptyNode == [compat |-> FALSE, support |-> NoSupport]

\* { __compat: { support: s } }
CompatNode(s) == [compat |-> TRUE, support |-> s]

\* { thunderbird: { version_added: v } }
ThunderbirdSupport(v) == [vendor \in {"thunderbird"} |-> v]

\* node.__compat?.support?.<vendor>?.version_added
VersionAdded(node, vendor) ==
    IF node.compat /\ vendor \in DOMAIN node.support
    THEN node.support[vendor]
    ELSE Undefined

IsPrefix(p, q) == Len(p) <= Len(q) /\ SubSeq(q, 1, Len(p)) = p

\* The keys of the children of the object at path p.
ChildKeys(t, p) ==
    {q[Len(p) + 1] : q \in {r \in DOMAIN t : Len(r) = Len(p) + 1 /\ IsPrefix(p, r)}}

\* Object.keys(obj) of the object at path p.
ObjectKeys(t, p) ==
    ChildKeys(t, p) \cup (IF t[p].compat THEN {"__compat"} ELSE {})

\* The tree without the object at p and everything below it.
RemoveSubtree(t, p) ==
    [q \in {r \in DOMAIN t : ~IsPrefix(p, r)} |-> t[q]]

\* The tree with the __compat of the object at p set, the object being
\* created (without children) when it is missing.
SetCompat(t, p, node) ==
    [q \in DOMAIN t \cup {p} |-> IF q = p THEN node ELSE t[q]]

\* obj[key].__compat = node.__compat in place of obj[key] = node: the
\* children of the object stay.
ReplaceNode_keepsChildren(t, p, node) == SetCompat(t, p, node)

\* obj[key] = node: the object at p replaced by a new object without children.
ReplaceNode(t, p, node) == SetCompat(RemoveSubtree(t, p), p, node)

\* tcd = { webextensions: { api: {} } }
EmptyTcd == [q \in {<<>>, <<"api">>} |-> EmptyNode]

-----------------------------------------------------------------------------
(* The static tables.                                                      *)

CONFIRMED_FLAT_PROPS == {
    "action.functions.setIcon.parameters.details.properties.imageData",
    "browserAction.functions.setIcon.parameters.details.properties.imageData",
    "commands.functions.update.parameters.detail.properties.",
    "menus.functions.create.parameters.createProperties.properties.",
    "tabs.functions.create.parameters.createProperties.properties.",
    "tabs.functions.executeScript.parameters.details.properties.",
    "tabs.functions.insertCSS.parameters.details.properties.",
    "windows.functions.update.parameters.updateInfo.properties.",
    "windows.functions.getAll.parameters.getInfo.properties." }

KNOWN_FALSE_POSITIVE_FLAT_PROPS == {
    "bookmarks.functions.search.parameters.query.properties.query",
    "topSites.types.MostVisitedURL.properties.type.enum.url",
    "bookmarks.events.onCreated.parameters.bookmark.properties.id",
    "bookmarks.events.onRemoved.parameters.removeInfo.properties.node.properties.",
    "menus.types.OnShowData.properties.selectedAccount.properties.rootFolder.properties.",
    "menus.types.OnClickData.properties.selectedAccount.properties.rootFolder.properties.",
    "menus.events.onShown.parameters.info.properties.selectedAccount.properties.rootFolder.properties.",
    "menus.events.onClicked.parameters.info.properties.selectedAccount.properties.rootFolder.properties.",
    "menus.functions.update.parameters.updateProperties.properties.onclick.parameters.info.properties.selectedAccount.properties.rootFolder.properties.",
    "menus.functions.create.parameters.createProperties.properties.onclick.parameters.info.properties.selectedAccount.properties.rootFolder.properties." }

-----------------------------------------------------------------------------
(* updateCompatData and its closures.  compatEntry is { version_added:     *)
(* expected } and is modelled by expected.                                 *)

NoNotation == [notation |-> "", processEntry |-> <<>>, processKey |-> ""]

\* The candidates of detectNotation and the lines it adds to logEntries:
\* whether the keys of parent show the _parameter and the _value notation,
\* whether the entry is a confirmed flat property, whether itemName is a
\* key of parent while the flat check is enabled.
notationCandidates(t, itemName, parent, parentItemName, curr_namespace_entry, skipFlatPropsCheck) ==
    LET hasParameter ==
            \E e \in ObjectKeys(t, parent) :
                StartsWith(e, parentItemName \o "_") /\ EndsWith(e, "_parameter")
        hasValue == \E e \in ObjectKeys(t, parent) : EndsWith(e, "_value")
        confirmed ==
            \E e \in CONFIRMED_FLAT_PROPS :
                /\ StartsWith(curr_namespace_entry, e)
                /\ Len(Split(curr_namespace_entry)) = Len(Split(e))
        unconfirmed == ~confirmed /\ ~skipFlatPropsCheck /\ itemName \in ObjectKeys(t, parent)
    IN  [hasParameter |-> hasParameter,
         hasValue |-> hasValue,
         confirmed |-> confirmed,
         unconfirmed |-> unconfirmed,
         parameter |-> [notation |-> "_parameter", processEntry |-> parent,
                        processKey |-> parentItemName \o "_" \o itemName \o "_parameter"],
         value |-> [notation |-> "_value", processEntry |-> parent,
                    processKey |-> itemName \o "_value"],
         flat |-> [notation |-> "flat", processEntry |-> parent, processKey |-> itemName],
         log |-> (IF hasParameter /\ hasValue
                  THEN {"Warning: Found MIXED notations for " \o curr_namespace_entry}
                  ELSE {})
                 \cup
                 (IF confirmed
                  THEN {"Info: Accepted confirmed flat notation usage: " \o curr_namespace_entry}
                  ELSE {})
                 \cup
                 (IF unconfirmed /\ (hasParameter \/ hasValue)
                  THEN {"Warning: Found MIXED notations: " \o curr_namespace_entry}
                  ELSE {})
                 \cup
                 (IF unconfirmed /\ ~\E e \in KNOWN_FALSE_POSITIVE_FLAT_PROPS :
                                        StartsWith(curr_namespace_entry, e)
                  THEN {"Info: Ignored unconfirmed but potential flat notation usage: "
                          \o curr_namespace_entry}
                  ELSE {})]

\* detectNotation in which the _parameter notation is applied last: it wins
\* over the _value notation and over a confirmed flat property.
detectNotation_parameterLast(t, entry, itemName, parent, parentItemName, curr_namespace_entry, skipFlatPropsCheck) ==
    LET c == notationCandidates(t, itemName, parent, parentItemName, curr_namespace_entry, skipFlatPropsCheck)
        rv == IF c.hasParameter THEN c.parameter
              ELSE IF c.hasValue THEN c.value
              ELSE IF c.confirmed THEN c.flat
              ELSE [notation |-> "nested", processEntry |-> entry, processKey |-> itemName]
    IN  [notation |-> rv.notation, processEntry |-> rv.processEntry,
         processKey |-> rv.processKey, log |-> c.log]

\* detectNotation that takes an unconfirmed flat key of parent for the flat
\* notation.
detectNotation_unconfirmedFlat(t, entry, itemName, parent, parentItemName, curr_namespace_entry, skipFlatPropsCheck) ==
    LET c == notationCandidates(t, itemName, parent, parentItemName, curr_namespace_entry, skipFlatPropsCheck)
        rv == IF c.confirmed \/ c.unconfirmed THEN c.flat
              ELSE IF c.hasValue THEN c.value
              ELSE IF c.hasParameter THEN c.parameter
              ELSE [notation |-> "nested", processEntry |-> entry, processKey |-> itemName]
    IN  [notation |-> rv.notation, processEntry |-> rv.processEntry,
         processKey |-> rv.processKey, log |-> c.log]

\* detectNotation(entry, itemName, parent, parentItemName, curr_namespace_entry):
\* entry and parent are the paths of the two objects.  Returns the chosen
\* notation and the lines added to logEntries.
detectNotation(t, entry, itemName, parent, parentItemName, curr_namespace_entry, skipFlatPropsCheck) ==
    LET dashedParameterNotation ==
            {e \in ObjectKeys(t, parent) :
                StartsWith(e, parentItemName \o "_") /\ EndsWith(e, "_parameter")}
        rv1 == IF dashedParameterNotation # {}
               THEN [notation |-> "_parameter",
                     processEntry |-> parent,
                     processKey |-> parentItemName \o "_" \o itemName \o "_parameter"]
               ELSE NoNotation
        dashedValueNotation ==
            {e \in ObjectKeys(t, parent) : EndsWith(e, "_value")}
        log2 == IF dashedValueNotation # {} /\ rv1 # NoNotation
                THEN {"Warning: Found MIXED notations for " \o curr_namespace_entry}
                ELSE {}
        rv2 == IF dashedValueNotation # {}
               THEN [notation |-> "_value",
                     processEntry |-> parent,
                     processKey |-> itemName \o "_value"]
               ELSE rv1
        confirmed ==
            \E e \in CONFIRMED_FLAT_PROPS :
                /\ StartsWith(curr_namespace_entry, e)
                /\ Len(Split(curr_namespace_entry)) = Len(Split(e))
        flatNotation == {e \in ObjectKeys(t, parent) : e = itemName}
        log3 ==
            IF confirmed
            THEN {"Info: Accepted confirmed flat notation usage: "
                    \o curr_namespace_entry}
            ELSE IF ~skipFlatPropsCheck /\ flatNotation # {}
            THEN (IF rv2 # NoNotation
                  THEN {"Warning: Found MIXED notations: " \o curr_namespace_entry}
                  ELSE {})
                 \cup
                 (IF ~\E e \in KNOWN_FALSE_POSITIVE_FLAT_PROPS :
                        StartsWith(curr_namespace_entry, e)
                  THEN {"Info: Ignored unconfirmed but potential flat notation usage: "
                          \o curr_namespace_entry}
                  ELSE {})
            ELSE {}
        rv3 == IF confirmed
               THEN [notation |-> "flat",
                     processEntry |-> parent,
                     processKey |-> itemName]
               ELSE rv2
        rv == IF rv3 # NoNotation
              THEN rv3
              ELSE [notation |-> "nested",
                    processEntry |-> entry,
                    processKey |-> itemName]
    IN  [notation |-> rv.notation,
         processEntry |-> rv.processEntry,
         processKey |-> rv.processKey,
         log |-> log2 \cup log3]

\* newEntry() that asserts support whatever the call asked for.
newEntry_true(expected) == CompatNode(ThunderbirdSupport(VTrue))

\* newEntry(): { __compat: { support: { thunderbird: compatEntry } } }
newEntry(expected) == CompatNode(ThunderbirdSupport(expected))

\* handleEntry, `if (!expected)` branch, that marks an existing object on
\* the way as unsupported too.
handleEntryUnsupported_downgrades(t, item, isTerminal, expected) ==
    IF isTerminal
    THEN [tcd |-> ReplaceNode(t, item, newEntry(expected)), rv |-> FALSE]
    ELSE [tcd |-> SetCompat(t, item, newEntry(expected)), rv |-> TRUE]

\* handleEntry(entry, itemName), the branch `if (!expected)`: item is the
\* path of entry[itemName], isTerminal is curr_namespace_entry ==
\* namespace_entry.
handleEntryUnsupported(t, item, isTerminal, expected) ==
    IF isTerminal
    THEN [tcd |-> ReplaceNode(t, item, newEntry(expected)), rv |-> FALSE]
    ELSE IF item \in DOMAIN t
    THEN [tcd |-> t, rv |-> TRUE]
    ELSE [tcd |-> ReplaceNode(t, item, newEntry(expected)), rv |-> TRUE]

\* handleEntry, supported branch, that writes the desired value over any
\* existing one.
handleEntrySupported_overwrites(t, item, isTerminal, expected) ==
    [tcd |-> SetCompat(t, item, newEntry(expected)), rv |-> ~isTerminal]

\* handleEntry, supported branch, that sets the value only where none is
\* defined and so leaves a false in place.
handleEntrySupported_keepsFalse(t, item, isTerminal, expected) ==
    [tcd |-> IF item \notin DOMAIN t \/ VersionAdded(t[item], "thunderbird") = Undefined
             THEN SetCompat(t, item, newEntry(expected))
             ELSE t,
     rv |-> ~isTerminal]

\* handleEntry(entry, itemName), the rest of it (expected is truthy).
handleEntrySupported(t, item, isTerminal, expected) ==
    LET t1 == IF item \notin DOMAIN t
              THEN ReplaceNode(t, item, newEntry(expected))
              ELSE t
        t2 == IF ~Truthy(VersionAdded(t1[item], "thunderbird"))
              THEN SetCompat(t1, item, newEntry(expected))
              ELSE IF VersionAdded(t1[item], "thunderbird") = VFalse
              THEN SetCompat(t1, item,
                       CompatNode([t1[item].support
                                     EXCEPT !["thunderbird"] = expected]))
              ELSE t1
    IN  [tcd |-> t2, rv |-> ~isTerminal]

\* handleEntry that writes the item into webextensions.api, whatever object
\* it is given as entry.
handleEntry_intoApi(t, entry, itemName, curr_namespace_entry, namespace_entry, expected) ==
    IF ~Truthy(expected)
    THEN handleEntryUnsupported(t, <<"api", itemName>>, curr_namespace_entry = namespace_entry, expected)
    ELSE handleEntrySupported(t, <<"api", itemName>>, curr_namespace_entry = namespace_entry, expected)

\* handleEntry(entry, itemName), where curr_namespace_entry is the join of
\* curr_namespace_parts: the updated tree and the value returned (whether
\* to go on with the next level).
handleEntry(t, entry, itemName, curr_namespace_entry, namespace_entry, expected) ==
    IF ~Truthy(expected)
    THEN handleEntryUnsupported(t, Append(entry, itemName), curr_namespace_entry = namespace_entry, expected)
    ELSE handleEntrySupported(t, Append(entry, itemName), curr_namespace_entry = namespace_entry, expected)

\* The state of one updateCompatData call after handleEntry(entry, itemName)
\* returned h: the tree, the log set, the objects handled so far and the
\* object handled as the terminal segment of namespace_entry (<<>>: none yet).
afterHandleEntry(st, h, addedLog, entry, itemName, curr_namespace_entry, namespace_entry) ==
    [tcd |-> h.tcd,
     log |-> st.log \cup addedLog,
     visited |-> st.visited \cup {Append(entry, itemName)},
     terminal |-> IF curr_namespace_entry = namespace_entry
                  THEN Append(entry, itemName)
                  ELSE st.terminal]

RECURSIVE subEntries(_, _, _, _, _, _, _, _, _)
\* The loop `for (let i = 3; i < parts.length; i += 2)` of updateCompatData,
\* from index i on.
subEntries(st, parts, i, parentEntryName, parent, entry, namespace_entry, expected, skipFlatPropsCheck) ==
    IF ~(i < Len(parts)) THEN st
    ELSE
    LET subEntryType == Part(parts, i)
        subEntryName == Part(parts, i + 1)
        curr_namespace_entry ==
            Join([k \in 1..(i + 2) |-> Part(parts, k - 1)])
    IN  IF subEntryType = "" \/ subEntryName = "" \/ subEntryName = "callback"
        THEN st
        ELSE IF subEntryType \notin {"properties", "parameters", "enum"}
        THEN st
        ELSE
        LET d == detectNotation(st.tcd, entry, subEntryName, parent,
                                parentEntryName, curr_namespace_entry,
                                skipFlatPropsCheck)
            h == handleEntry(st.tcd, d.processEntry, d.processKey,
                             curr_namespace_entry, namespace_entry, expected)
            st2 == afterHandleEntry(st, h, d.log, d.processEntry, d.processKey,
                                    curr_namespace_entry, namespace_entry)
        IN  IF ~h.rv THEN st2
            ELSE subEntries(st2, parts, i + 2, d.processKey, d.processEntry,
                            Append(d.processEntry, d.processKey),
                            namespace_entry, expected, skipFlatPropsCheck)

\* updateCompatData(tcd, namespace_entry, compatEntry, logEntries,
\* skipFlatPropsCheck): the tree and the log set after the call (and the
\* objects it handled).
updateCompatData(t, namespace_entry, expected, log, skipFlatPropsCheck) ==
    LET parts == Split(namespace_entry)
        namespace == Part(parts, 0)
        entryType == Part(parts, 1)
        entryName == Part(parts, 2)
        member == Join(<<namespace, entryType, entryName>>)
        st0 == [tcd |-> t, log |-> log, visited |-> {}, terminal |-> <<>>]
        h1 == handleEntry(t, <<"api">>, namespace, namespace,
                          namespace_entry, expected)
        st1 == afterHandleEntry(st0, h1, {}, <<"api">>, namespace,
                                namespace, namespace_entry)
        isMember == /\ entryType # ""
                    /\ entryName # ""
                    /\ entryType \in {"functions", "events", "properties", "types"}
        h2 == handleEntry(st1.tcd, <<"api", namespace>>, entryName, member,
                          namespace_entry, expected)
        st2 == IF isMember
               THEN afterHandleEntry(st1, h2, {}, <<"api", namespace>>,
                                     entryName, member, namespace_entry)
               ELSE st1
    IN  IF namespace = "" THEN st0
        ELSE IF namespace = "manifest" THEN st0
        ELSE IF ~h1.rv THEN st1
        ELSE IF isMember /\ ~h2.rv THEN st2
        ELSE IF isMember /\ member = namespace_entry THEN st2
        ELSE IF /\ entryType # ""
                /\ entryName # ""
                /\ entryType \in {"functions", "events", "types"}
                /\ Len(parts) > 3
        THEN subEntries(st2, parts, 3, namespace, <<"api", namespace>>,
                        <<"api", namespace, entryName>>,
                        namespace_entry, expected, skipFlatPropsCheck)
        ELSE st2

-----------------------------------------------------------------------------
(* cloneBrowserCompatData and overrideBrowserCompatData.                   *)

\* The objects of t at p and below.
Subtree(t, p) == [q \in {r \in DOMAIN t : IsPrefix(p, r)} |-> t[q]]

\* cloneBrowserCompatData that copies whether firefox supports the entry,
\* not since which version.
cloneBrowserCompatData_boolean(b, t) ==
    [q \in DOMAIN t \cup DOMAIN b |->
        IF q \in DOMAIN b /\ b[q].compat
        THEN CompatNode(ThunderbirdSupport(
                IF Truthy(VersionAdded(b[q], "firefox")) THEN VTrue ELSE VFalse))
        ELSE IF q \in DOMAIN t THEN t[q]
        ELSE EmptyNode]

\* cloneBrowserCompatData(bcdEntry, tcdEntry), called on the two roots:
\* every object of the baseline is created in tcd when missing, and every
\* __compat of the baseline becomes a thunderbird entry holding the
\* baseline's firefox version_added, or false when that is falsy.
cloneBrowserCompatData(b, t) ==
    [q \in DOMAIN t \cup DOMAIN b |->
        IF q \in DOMAIN b /\ b[q].compat
        THEN LET version_added == IF Truthy(VersionAdded(b[q], "firefox"))
                                  THEN VersionAdded(b[q], "firefox")
                                  ELSE VFalse
             IN  CompatNode(ThunderbirdSupport(version_added))
        ELSE IF q \in DOMAIN t THEN t[q]
        ELSE EmptyNode]

\* The value overrideBrowserCompatData returns when nothing was modified.
NotModified == <<>>

\* The test without the case "tcd.version_added is a string and the
\* override is true".
replacesCompat_noStringCase(overrideNode, tcdNode) ==
    ~ \/ "thunderbird" \notin DOMAIN overrideNode.support
      \/ VersionAdded(overrideNode, "thunderbird") = Undefined
      \/ VersionAdded(tcdNode, "thunderbird") = VersionAdded(overrideNode, "thunderbird")

\* The test of overrideBrowserCompatData on one __compat: whether the
\* override's thunderbird entry replaces the generated one.
replacesCompat(overrideNode, tcdNode) ==
    ~ \/ "thunderbird" \notin DOMAIN overrideNode.support
      \/ VersionAdded(overrideNode, "thunderbird") = Undefined
      \/ VersionAdded(tcdNode, "thunderbird") = VersionAdded(overrideNode, "thunderbird")
      \/ /\ IsString(VersionAdded(tcdNode, "thunderbird"))
         /\ VersionAdded(overrideNode, "thunderbird") = VTrue

\* modifiedEntry once `if (!modifiedEntry) { modifiedEntry = {}; }` has run
\* in the call for the object at p.
ensureModified(modifiedEntry, p) ==
    IF p \in DOMAIN modifiedEntry
    THEN modifiedEntry
    ELSE SetCompat(modifiedEntry, p, EmptyNode)

\* The branch for __compat that reports the override's __compat whether or
\* not it replaced anything.
overrideCompat_reportsAll(o, p, st) ==
    [tcd |-> IF replacesCompat(o[p], st.tcd[p])
             THEN SetCompat(st.tcd, p,
                      CompatNode(ThunderbirdSupport(VersionAdded(o[p], "thunderbird"))))
             ELSE st.tcd,
     modifiedEntry |-> SetCompat(ensureModified(st.modifiedEntry, p), p, o[p])]

\* overrideBrowserCompatData, the branch `k == "__compat"` for the object
\* at p; st is [tcd, modifiedEntry], modifiedEntry being the tree of the
\* objects of the diff (NotModified while it is undefined).
overrideCompat(o, p, st) ==
    IF replacesCompat(o[p], st.tcd[p])
    THEN [tcd |-> SetCompat(st.tcd, p,
                      CompatNode(ThunderbirdSupport(VersionAdded(o[p], "thunderbird")))),
          modifiedEntry |-> SetCompat(ensureModified(st.modifiedEntry, p), p, o[p])]
    ELSE st

\* overrideBrowserCompatData, the branch `tcdEntry[k]` for the child at
\* path child of the object at p, childMod being what the recursive call
\* returned.
overrideChild(p, st, childMod) ==
    IF childMod.modifiedEntry # NotModified
    THEN [tcd |-> childMod.tcd,
          modifiedEntry |-> ensureModified(st.modifiedEntry, p) @@ childMod.modifiedEntry]
    ELSE [tcd |-> childMod.tcd, modifiedEntry |-> st.modifiedEntry]

\* overrideBrowserCompatData, the last branch: the generated tree has no
\* child k, and gets the override's.
overrideAdd(o, p, child, st) ==
    [tcd |-> st.tcd @@ Subtree(o, child),
     modifiedEntry |-> ensureModified(st.modifiedEntry, p) @@ Subtree(o, child)]

RECURSIVE overrideBrowserCompatData(_, _, _)
RECURSIVE overrideKeys(_, _, _, _)

\* The forEach of overrideBrowserCompatData over the keys left to handle of
\* the override object at p.
overrideKeys(o, p, keys, st) ==
    IF keys = {} THEN st
    ELSE
    LET k == CHOOSE x \in keys : TRUE
        child == Append(p, k)
        next == IF k = "__compat" THEN overrideCompat(o, p, st)
                ELSE IF child \in DOMAIN st.tcd
                THEN overrideChild(p, st, overrideBrowserCompatData(o, st.tcd, child))
                ELSE overrideAdd(o, p, child, st)
    IN  overrideKeys(o, p, keys \ {k}, next)

\* overrideBrowserCompatData(overrideEntry, tcdEntry) for the objects at
\* path p of the override o and of the generated tree t: the generated tree
\* afterwards and the value returned.
overrideBrowserCompatData(o, t, p) ==
    overrideKeys(o, p, ObjectKeys(o, p), [tcd |-> t, modifiedEntry |-> NotModified])

-----------------------------------------------------------------------------
(* mergeObjects, reduceBrowserCompatData and                               *)
(* checkForMissingThunderbirdEntries.                                      *)

\* mergeObjects that replaces the __compat of `to` by the one of `from`.
mergeCompat_replaces(toNode, fromNode) ==
    IF fromNode.compat THEN fromNode ELSE toNode

\* mergeObjects(to, from) on the __compat of one object: a key missing in
\* `to` is taken from `from`, and a version_added that `from` defines
\* replaces the one of `to`.
mergeCompat(toNode, fromNode) ==
    IF ~fromNode.compat THEN toNode
    ELSE IF ~toNode.compat THEN fromNode
    ELSE CompatNode(
            [v \in DOMAIN toNode.support \cup DOMAIN fromNode.support |->
                IF v \notin DOMAIN fromNode.support THEN toNode.support[v]
                ELSE IF v \notin DOMAIN toNode.support THEN fromNode.support[v]
                ELSE IF fromNode.support[v] = Undefined THEN toNode.support[v]
                ELSE fromNode.support[v]])

\* mergeObjects(to, from) on two trees: the value of `to` afterwards, which
\* is also the value returned.
mergeObjects(to, from) ==
    [q \in DOMAIN to \cup DOMAIN from |->
        IF q \notin DOMAIN from THEN to[q]
        ELSE IF q \notin DOMAIN to THEN from[q]
        ELSE mergeCompat(to[q], from[q])]

RECURSIVE reduceBrowserCompatData(_, _, _)
RECURSIVE reduceChildren(_, _, _, _, _, _)
RECURSIVE reduceChildren_anyVendor(_, _, _, _, _, _)
RECURSIVE reduceChildren_leavesOnly(_, _, _, _, _, _)

\* The forEach without the test that the parent lists thunderbird alone.
reduceChildren_anyVendor(p, path, keys, parentCompatVendors, parentCompatString, st) ==
    IF keys = {} THEN st
    ELSE
    LET k == CHOOSE x \in keys : TRUE
        child == reduceBrowserCompatData(st.tcd, Append(p, k), path \o "." \o k)
        childCompatStrings == child.parentCompatStrings
        remove == /\ Len(Split(path)) > 3
                  /\ Cardinality(childCompatStrings) = 1
                  /\ childCompatStrings = {parentCompatString}
    IN  reduceChildren_anyVendor(p, path, keys \ {k}, parentCompatVendors, parentCompatString,
            [tcd |-> IF remove
                     THEN RemoveSubtree(child.tcd, Append(p, k))
                     ELSE child.tcd,
             parentCompatStrings |-> st.parentCompatStrings \cup childCompatStrings])

\* The forEach that compares the child's own compat data with the parent's
\* and removes only a child that had no children of its own.
reduceChildren_leavesOnly(p, path, keys, parentCompatVendors, parentCompatString, st) ==
    IF keys = {} THEN st
    ELSE
    LET k == CHOOSE x \in keys : TRUE
        child == reduceBrowserCompatData(st.tcd, Append(p, k), path \o "." \o k)
        childCompatStrings == child.parentCompatStrings
        remove == /\ Len(Split(path)) > 3
                  /\ Cardinality(parentCompatVendors) = 1
                  /\ parentCompatVendors = {"thunderbird"}
                  /\ ChildKeys(st.tcd, Append(p, k)) = {}
                  /\ st.tcd[Append(p, k)].compat
                  /\ st.tcd[Append(p, k)].support = parentCompatString
    IN  reduceChildren_leavesOnly(p, path, keys \ {k}, parentCompatVendors, parentCompatString,
            [tcd |-> IF remove
                     THEN RemoveSubtree(child.tcd, Append(p, k))
                     ELSE child.tcd,
             parentCompatStrings |-> st.parentCompatStrings \cup childCompatStrings])

\* The forEach of reduceBrowserCompatData over the children left to handle
\* of the object at p; st is [tcd, parentCompatStrings].  A compat string,
\* JSON.stringify(sortKeys(support)), is modelled by the support object.
reduceChildren(p, path, keys, parentCompatVendors, parentCompatString, st) ==
    IF keys = {} THEN st
    ELSE
    LET k == CHOOSE x \in keys : TRUE
        child == reduceBrowserCompatData(st.tcd, Append(p, k), path \o "." \o k)
        childCompatStrings == child.parentCompatStrings
        remove == /\ Len(Split(path)) > 3
                  /\ Cardinality(parentCompatVendors) = 1
                  /\ parentCompatVendors = {"thunderbird"}
                  /\ Cardinality(childCompatStrings) = 1
                  /\ childCompatStrings = {parentCompatString}
    IN  reduceChildren(p, path, keys \ {k}, parentCompatVendors, parentCompatString,
            [tcd |-> IF remove
                     THEN RemoveSubtree(child.tcd, Append(p, k))
                     ELSE child.tcd,
             parentCompatStrings |-> st.parentCompatStrings \cup childCompatStrings])

\* reduceBrowserCompatData(tcdEntry, parentKey, path) for the object at
\* path p of t: the tree afterwards and the set returned.
reduceBrowserCompatData(t, p, path) ==
    reduceChildren(p, path, ChildKeys(t, p),
        IF t[p].compat THEN DOMAIN t[p].support ELSE {},
        t[p].support,
        [tcd |-> t,
         parentCompatStrings |-> IF t[p].compat THEN {t[p].support} ELSE {}])

RECURSIVE checkForMissingThunderbirdEntries_everywhere(_, _, _)
\* checkForMissingThunderbirdEntries that dives into the properties of an
\* unsupported entity too.
checkForMissingThunderbirdEntries_everywhere(t, p, path) ==
    (IF t[p].compat /\ "thunderbird" \notin DOMAIN t[p].support
     THEN {path}
     ELSE {})
    \cup
    UNION {checkForMissingThunderbirdEntries_everywhere(t, Append(p, k), path \o "." \o k) :
               k \in ChildKeys(t, p)}

RECURSIVE checkForMissingThunderbirdEntries(_, _, _)
\* checkForMissingThunderbirdEntries(tcdEntry, path) for the object at path
\* p of t: the paths it reports with "Error: Missing thunderbird entry in".
checkForMissingThunderbirdEntries(t, p, path) ==
    IF VersionAdded(t[p], "thunderbird") = VFalse THEN {}
    ELSE (IF t[p].compat /\ "thunderbird" \notin DOMAIN t[p].support
          THEN {path}
          ELSE {})
         \cup
         UNION {checkForMissingThunderbirdEntries(t, Append(p, k), path \o "." \o k) :
                    k \in ChildKeys(t, p)}

-----------------------------------------------------------------------------
(* Schema values.  A JSON value is a primitive (held by its string form),  *)
(* an array or an object; an object is the sequence of its <<key, value>>  *)
(* pairs in insertion order, which is the order of Object.keys.            *)

JsUndefined == [t |-> "undefined"]
Prim(v) == [t |-> "prim", v |-> v]
Arr(a) == [t |-> "array", a |-> a]
Obj(p) == [t |-> "object", p |-> p]

\* typeof v == "object"
TypeofObject(v) == v.t \in {"array", "object"}

\* JavaScript truthiness of a schema value.
TruthyValue(v) ==
    \/ TypeofObject(v)
    \/ v.t = "prim" /\ v.v \notin {"", "false", "0"}

\* obj.hasOwnProperty(key)
HasOwnProperty(obj, key) ==
    obj.t = "object" /\ \E i \in 1..Len(obj.p) : obj.p[i][1] = key

\* The position of key among the keys of obj.
KeyIndex(obj, key) == CHOOSE i \in 1..Len(obj.p) : obj.p[i][1] = key

\* obj[key]
Get(obj, key) ==
    IF HasOwnProperty(obj, key) THEN obj.p[KeyIndex(obj, key)][2] ELSE JsUndefined

\* obj[key] = v
Put(obj, key, v) ==
    IF HasOwnProperty(obj, key)
    THEN Obj([obj.p EXCEPT ![KeyIndex(obj, key)] = <<key, v>>])
    ELSE Obj(Append(obj.p, <<key, v>>))

\* delete obj[key]
Delete(obj, key) == Obj(SelectSeq(obj.p, LAMBDA kv : kv[1] # key))

RECURSIVE ObjectAssignFrom(_, _, _)
ObjectAssignFrom(target, source, i) ==
    IF i > Len(source.p) THEN target
    ELSE ObjectAssignFrom(Put(target, source.p[i][1], source.p[i][2]), source, i + 1)

\* Object.assign(target, source)
ObjectAssign(target, source) == ObjectAssignFrom(target, source, 1)

\* The value at a location of v: loc is the sequence of the array indices
\* and key positions that lead to it.
RECURSIVE GetAt(_, _)
GetAt(v, loc) ==
    IF loc = <<>> THEN v
    ELSE IF v.t = "array" THEN GetAt(v.a[Head(loc)], Tail(loc))
    ELSE GetAt(v.p[Head(loc)][2], Tail(loc))

\* v with the value at loc replaced by new: a mutation in place of the
\* object or array at that location.
RECURSIVE SetAt(_, _, _)
SetAt(v, loc, new) ==
    IF loc = <<>> THEN new
    ELSE IF v.t = "array"
    THEN Arr([v.a EXCEPT ![Head(loc)] = SetAt(v.a[Head(loc)], Tail(loc), new)])
    ELSE Obj([v.p EXCEPT ![Head(loc)] = <<v.p[Head(loc)][1], SetAt(v.p[Head(loc)][2], Tail(loc), new)>>])

\* getNestedIdOrNamespace(value, searchString); elements are the values of
\* an array or of an object still to search.
RECURSIVE getNestedIdOrNamespace(_, _), getNestedInElements(_, _)
getNestedInElements(elements, searchString) ==
    LET found == {i \in 1..Len(elements) : getNestedIdOrNamespace(elements[i], searchString) # JsUndefined}
    IN  IF found = {} THEN JsUndefined
        ELSE getNestedIdOrNamespace(elements[CHOOSE i \in found : \A j \in found : i <= j], searchString)

getNestedIdOrNamespace(value, searchString) ==
    IF ~TypeofObject(value) THEN JsUndefined
    ELSE IF value.t = "array" THEN getNestedInElements(value.a, searchString)
    ELSE IF Get(value, "namespace") = Prim(searchString) THEN value
    ELSE IF Get(value, "id") = Prim(searchString) THEN value
    ELSE getNestedInElements([i \in 1..Len(value.p) |-> value.p[i][2]], searchString)

-----------------------------------------------------------------------------
(* collectNamespaceEntriesAndResolveRefs.  The walk changes the namespace  *)
(* objects in place, so it is given the location of `value` in the list    *)
(* all_namespaces, and an entry of the map holds the location of the       *)
(* object recorded.                                                        *)

\* The deepest recursion of one walk.
MaxDepth == 24

NoSchemaCall == [op |-> ""]

\* array.includes(x)
Includes(array, x) == \E i \in 1..Len(array) : array[i] = x

\* entries.set(path, value), value being the object at loc; calls keeps
\* every call made.
EntriesSet(st, path, loc) ==
    LET old == {i \in 1..Len(st.entries) : st.entries[i].path = path}
        e == [path |-> path, loc |-> loc]
    IN  [st EXCEPT !.entries = IF old = {} THEN Append(@, e)
                                ELSE [@ EXCEPT ![CHOOSE i \in old : TRUE] = e],
                   !.calls = Append(@, e)]

\* The two loops of handleRef: the definition found first, going over the
\* search namespaces in order and for each of them over the schemas in order.
handleRefSearch(all_namespaces, searchNamespaces, id) ==
    LET refAt(i, j) == IF Get(all_namespaces.a[j], "namespace") = Prim(searchNamespaces[i])
                       THEN getNestedIdOrNamespace(all_namespaces.a[j], id)
                       ELSE JsUndefined
        found == {ij \in (1..Len(searchNamespaces)) \X (1..Len(all_namespaces.a)) : TruthyValue(refAt(ij[1], ij[2]))}
        first == CHOOSE ij \in found :
                    \A other \in found : ij[1] < other[1] \/ (ij[1] = other[1] /\ ij[2] <= other[2])
    IN  IF found = {} THEN JsUndefined ELSE refAt(first[1], first[2])

\* handleRef that searches the current namespace before the one the $ref
\* names.
searchNamespacesOf_currentFirst(all_namespaces, requested_namespace, current_namespace) ==
    <<current_namespace, requested_namespace, "manifest">>
        \o [j \in 1..Len(all_namespaces.a) |-> Get(all_namespaces.a[j], "namespace").v]

\* The namespaces handleRef searches, in its order.
searchNamespacesOf(all_namespaces, requested_namespace, current_namespace) ==
    <<requested_namespace, current_namespace, "manifest">>
        \o [j \in 1..Len(all_namespaces.a) |-> Get(all_namespaces.a[j], "namespace").v]

\* handleRef(value) of the call with the given fullPath: a copy of the
\* definition found, or JsUndefined for null.
handleRef(all_namespaces, value, fullPath) ==
    LET parts == Split(Get(value, "$ref").v)
        id == parts[Len(parts)]
        requested_namespace == Part(SubSeq(parts, 1, Len(parts) - 1), 0)
        current_namespace == Part(Split(fullPath), 0)
    IN  handleRefSearch(all_namespaces,
                        searchNamespacesOf(all_namespaces, requested_namespace, current_namespace),
                        id)

\* `${fullPath}.${value}` and the like: the string form of a value.
StringOf(v) == IF v.t = "prim" THEN v.v ELSE "[object Object]"

\* The fullPath of an object, from the fullPath it was called with.
fullPathOf(value, fullPath) ==
    LET reset == IF TruthyValue(Get(value, "namespace"))
                 THEN StringOf(Get(value, "namespace"))
                 ELSE fullPath
    IN  IF TruthyValue(Get(value, "name")) /\ ~TypeofObject(Get(value, "name"))
        THEN reset \o "." \o Get(value, "name").v
        ELSE IF TruthyValue(Get(value, "id")) /\ ~TypeofObject(Get(value, "id"))
        THEN reset \o "." \o Get(value, "id").v
        ELSE reset

\* A walk that resolves a $ref only where no $ref was resolved above it: a
\* $ref inside a definition that was copied in is left as it is.
resolvesRef_outermost(value, handledRefs) ==
    TruthyValue(Get(value, "$ref")) /\ handledRefs = <<>>

\* Whether the walk resolves the $ref of value.
resolvesRef(value, handledRefs) ==
    TruthyValue(Get(value, "$ref")) /\ ~Includes(handledRefs, Get(value, "$ref").v)

\* collectNamespaceEntriesAndResolveRefs(value, entries, all_namespaces,
\* parentKey, handledRefs, fullPath) for the value at loc, at the given depth
\* of the recursion.  st holds the namespaces, the entry map, the calls of
\* entries.set, the $refs resolved (with the handledRefs of the call that
\* resolved them and the definition found) and whether the recursion went
\* deeper than MaxDepth.
RECURSIVE collectNamespaceEntriesAndResolveRefs(_, _, _, _, _, _), collectElements(_, _, _, _, _, _, _), collectKeys(_, _, _, _, _, _)
\* value.forEach(...) and Object.keys(value).forEach(...): the state after
\* the first i elements (keys) of the value at loc were walked.
collectElements(st, loc, i, parentKey, handledRefs, fullPath, depth) ==
    IF i = 0 THEN st
    ELSE collectNamespaceEntriesAndResolveRefs(
            collectElements(st, loc, i - 1, parentKey, handledRefs, fullPath, depth),
            Append(loc, i), parentKey, handledRefs, fullPath, depth + 1)

collectKeys(st, loc, i, handledRefs, fullPath, depth) ==
    IF i = 0 THEN st
    ELSE LET key == GetAt(st.namespaces, loc).p[i][1]
         IN  collectNamespaceEntriesAndResolveRefs(
                collectKeys(st, loc, i - 1, handledRefs, fullPath, depth),
                Append(loc, i), key, handledRefs,
                IF key = "choices" THEN fullPath ELSE fullPath \o "." \o key, depth + 1)

collectNamespaceEntriesAndResolveRefs(st, loc, parentKey, handledRefs, fullPath, depth) ==
    LET value == GetAt(st.namespaces, loc) IN
    IF depth > MaxDepth THEN [st EXCEPT !.overflow = TRUE]
    ELSE IF ~TypeofObject(value)
    THEN IF parentKey = "enum" THEN EntriesSet(st, fullPath \o "." \o StringOf(value), loc) ELSE st
    ELSE IF value.t = "array"
    THEN collectElements(st, loc, Len(value.a), parentKey, handledRefs, fullPath, depth)
    ELSE LET path == fullPathOf(value, fullPath)
             st1 == IF path # "" THEN EntriesSet(st, path, loc) ELSE st
             ref == IF resolvesRef(value, handledRefs)
                    THEN handleRef(st.namespaces, value, path)
                    ELSE JsUndefined
             resolved == Delete(Delete(ObjectAssign(value, ref), "$ref"), "id")
         IN  IF TruthyValue(ref)
             THEN collectKeys(
                    [st1 EXCEPT !.namespaces = SetAt(@, loc, resolved),
                                !.resolved = Append(@, [loc |-> loc, ref |-> Get(value, "$ref").v, handledRefs |-> handledRefs, found |-> ref])],
                    loc, Len(resolved.p), Append(handledRefs, Get(value, "$ref").v), path, depth)
             ELSE collectKeys(st1, loc, Len(value.p), handledRefs, path, depth)

\* collectNamespaceEntriesAndResolveRefs(namespaceObj, entries, all_namespaces)
\* as main() calls it, for the i-th object of all_namespaces and a new map.
collectNamespace(all_namespaces, i) ==
    collectNamespaceEntriesAndResolveRefs(
        [namespaces |-> all_namespaces, entries |-> <<>>, calls |-> <<>>, resolved |-> <<>>, overflow |-> FALSE],
        <<i>>, "", <<>>, "", 0)

-----------------------------------------------------------------------------
(* processImports.  mergeObjects is the function main() merges the trees   *)
(* with, here on schema values: mergeSchemaObjects.  An import changes the *)
(* importing object in place, so a value is given by its location in the   *)
(* list of namespaces.                                                     *)

\* mergeObjects(to, from): the value of `to` afterwards.  The loop `for
\* (const n in from)` goes over the indices of an array and over the keys
\* of an object; mergeSchemaFrom is the loop from the i-th of them on.  (No
\* array is merged with an object in the schemas of the model.)
RECURSIVE mergeSchemaObjects(_, _), mergeSchemaFrom(_, _, _)
mergeSchemaFrom(to, from, i) ==
    IF from.t = "array"
    THEN IF i > Len(from.a) THEN to
         ELSE LET old == IF i <= Len(to.a) THEN to.a[i] ELSE JsUndefined
                  new == IF ~TypeofObject(old) THEN from.a[i]
                         ELSE IF TypeofObject(from.a[i]) THEN mergeSchemaObjects(old, from.a[i])
                         ELSE old
              IN  mergeSchemaFrom(Arr(IF i <= Len(to.a) THEN [to.a EXCEPT ![i] = new] ELSE Append(to.a, new)),
                                  from, i + 1)
    ELSE IF i > Len(from.p) THEN to
         ELSE LET n == from.p[i][1]
                  old == Get(to, n)
                  new == IF ~TypeofObject(old) THEN from.p[i][2]
                         ELSE IF TypeofObject(from.p[i][2]) THEN mergeSchemaObjects(old, from.p[i][2])
                         ELSE old
              IN  mergeSchemaFrom(Put(to, n, new), from, i + 1)

mergeSchemaObjects(to, from) ==
    IF to.t = from.t THEN mergeSchemaFrom(to, from, 1) ELSE to

\* The loop `for (const searchSchema of all_namespaces)` of _processImports,
\* from the j-th schema on: the definition found, or JsUndefined.
RECURSIVE findImported(_, _, _)
findImported(all_namespaces, j, id) ==
    IF j > Len(all_namespaces.a) THEN JsUndefined
    ELSE LET imported == getNestedIdOrNamespace(all_namespaces.a[j], id)
         IN  IF TruthyValue(imported) THEN imported
             ELSE findImported(all_namespaces, j + 1, id)

\* The copy of the definition found, without the keys that are not imported.
importedFragment(imported) ==
    Delete(Delete(Delete(Delete(imported, "min_manifest_version"), "max_manifest_version"), "namespace"), "id")

\* _processImports(obj, all_namespaces) for the value at loc of the list of
\* namespaces: the list afterwards and the value returned.
RECURSIVE processImportsValue(_, _), processImportsElements(_, _, _, _), processImportsKeys(_, _, _, _)
processImportsElements(all_namespaces, loc, i, acc) ==
    IF i > Len(GetAt(all_namespaces, loc).a) THEN [namespaces |-> all_namespaces, value |-> Arr(acc)]
    ELSE LET r == processImportsValue(all_namespaces, Append(loc, i))
         IN  processImportsElements(r.namespaces, loc, i + 1, Append(acc, r.value))

processImportsKeys(all_namespaces, loc, i, o) ==
    IF i > Len(GetAt(all_namespaces, loc).p) THEN [namespaces |-> all_namespaces, value |-> o]
    ELSE LET r == processImportsValue(all_namespaces, Append(loc, i))
         IN  processImportsKeys(r.namespaces, loc, i + 1, Put(o, GetAt(all_namespaces, loc).p[i][1], r.value))

processImportsValue(all_namespaces, loc) ==
    LET obj == GetAt(all_namespaces, loc)
        id == StringOf(Get(obj, "$import"))
        imported == findImported(all_namespaces, 1, id)
        merged == mergeSchemaObjects(Delete(obj, "$import"), importedFragment(imported))
    IN  IF ~TypeofObject(obj) THEN [namespaces |-> all_namespaces, value |-> obj]
        ELSE IF obj.t = "array" THEN processImportsElements(all_namespaces, loc, 1, <<>>)
        ELSE IF HasOwnProperty(obj, "$import") /\ id = "manifest.ManifestBase"
        THEN [namespaces |-> all_namespaces, value |-> obj]
        ELSE IF HasOwnProperty(obj, "$import") /\ TruthyValue(imported)
        THEN [namespaces |-> SetAt(all_namespaces, loc, merged), value |-> merged]
        ELSE processImportsKeys(all_namespaces, loc, 1, Obj(<<>>))

\* processImports(namespaces): the loop from the i-th namespace on.
RECURSIVE processImportsFrom(_, _)
processImportsFrom(list, i) ==
    IF i > Len(list.a) THEN list
    ELSE LET r == processImportsValue(list, <<i>>)
         IN  processImportsFrom(SetAt(r.namespaces, <<i>>, r.value), i + 1)

\* processImports(namespaces): the list afterwards.
processImports(list) == processImportsFrom(list, 1)

-----------------------------------------------------------------------------
(* Inputs of the model.                                                    *)

\* The dotted entry paths handed to updateCompatData, as
\* collectNamespaceEntriesAndResolveRefs records them.
EntryPaths == {
    "tabs",
    "tabs.functions.create",
    "tabs.functions.create.parameters.createProperties",
    "tabs.functions.create.parameters.createProperties.properties.url",
    "tabs.functions.create.parameters.callback",
    "tabs.types.Tab",
    "tabs.types.Tab.properties",
    "tabs.types.Tab.properties.id",
    "tabs.properties.TAB_ID_NONE",
    "manifest.types.ManifestBase" }

\* The values of version_added handed to updateCompatData.
ExpectedValues == {VFalse, VTrue, "5", "10"}

\* The number of updateCompatData calls of one run.
MaxCalls == 2

NoCall == [op |-> "", namespace_entry |-> "", expected |-> Undefined, skipFlatPropsCheck |-> FALSE]

\* A tree made of the root, `api` and the given objects.
Tree(objects) == objects @@ EmptyTcd

\* { firefox: { version_added: v } } and the same with a second vendor.
FirefoxSupport(v) == [vendor \in {"firefox"} |-> v]
FirefoxChromeSupport(v, w) == [vendor \in {"firefox", "chrome"} |-> IF vendor = "firefox" THEN v ELSE w]

\* The baselines of the model: bcd.webextensions of @mdn/browser-compat-data.
Baselines ==
    { Tree(<<"api", "tabs">> :> CompatNode(FirefoxChromeSupport(tabs, "5"))
           @@ <<"api", "tabs", "create">> :> CompatNode(FirefoxSupport(create))
           @@ <<"api", "tabs", "create", "url">> :> CompatNode(FirefoxSupport(url))
           @@ <<"api", "alarms">> :> CompatNode(FirefoxSupport("10"))) :
        tabs \in {"10"}, create \in {VTrue, "10"}, url \in {VFalse, "10"} }

\* The override files of the model: override.webextensions, and NoOverride
\* when main() has no override file.
NoOverride == <<>>
Overrides ==
    { NoOverride,
      Tree(<<"api", "tabs">> :> EmptyNode
           @@ <<"api", "tabs", "create">> :> CompatNode(ThunderbirdSupport("5"))),
      Tree(<<"api", "tabs">> :> EmptyNode
           @@ <<"api", "tabs", "create">> :> EmptyNode
           @@ <<"api", "tabs", "create", "url">> :> CompatNode(ThunderbirdSupport(VTrue))
           @@ <<"api", "tabs", "create", "createProperties">> :> EmptyNode
           @@ <<"api", "tabs", "create", "createProperties", "url">> :> CompatNode(ThunderbirdSupport(VTrue))) }

\* The entries collected from the schema files of each source directory.
ToolkitEntries == {"alarms", "theme", "theme.functions.update", "proxy", "proxy.functions.register"}
BrowserEntries == {e \in EntryPaths : Part(Split(e), 0) = "tabs"} \cup {"pkcs11", "bookmarks", "bookmarks.functions.create"}

\* The mail schemas of the model: mail_entries, flattened to the map from
\* entry path to whether the entry is marked `unsupported`.
MailSchemas ==
    { [e \in {"tabs", "tabs.functions.create", "theme", "theme.functions.update", "messages"} |-> FALSE],
      [e \in {"tabs", "tabs.functions.create",
              "tabs.functions.create.parameters.createProperties",
              "tabs.functions.create.parameters.createProperties.properties.url",
              "theme", "messages"} |->
          e = "tabs.functions.create.parameters.createProperties.properties.url"] }

SUPPORTED_BROWSER_NAMESPACES == {"pkcs11"}
REIMPLEMENTED_BROWSER_NAMESPACES == {"commands", "menus", "sessions", "tabs", "windows"}
UNSUPPORTED_TOOLKIT_NAMESPACES == {"pageAction", "captivePortal", "proxy"}
REIMPLEMENTED_TOOLKIT_NAMESPACES == {"action", "browserAction", "theme"}

-----------------------------------------------------------------------------
(* The steps of main().                                                    *)

\* What every specification starts from, apart from its inputs.
InitRest ==
    /\ browser_compat_data = EmptyTcd
    /\ logEntries = {}
    /\ modified = NotModified
    /\ errors = {}
    /\ call = NoCall
    /\ before = EmptyTcd
    /\ nCalls = 0
    /\ ran = {}
    /\ namespaces = Arr(<<>>)
    /\ entries = <<>>
    /\ schemaCall = NoSchemaCall

\* One call of updateCompatData.
Update(namespace_entry, expected, skipFlatPropsCheck) ==
    /\ nCalls < MaxCalls
    /\ LET st == updateCompatData(tcd, namespace_entry, expected, logEntries, skipFlatPropsCheck)
       IN  /\ tcd' = st.tcd
           /\ logEntries' = st.log
    /\ call' = [op |-> "updateCompatData", namespace_entry |-> namespace_entry, expected |-> expected, skipFlatPropsCheck |-> skipFlatPropsCheck]
    /\ before' = tcd
    /\ nCalls' = nCalls + 1
    /\ ran' = ran \cup {"updateCompatData"}
    /\ UNCHANGED <<bcd, override, mail_entries, browser_compat_data, modified, errors, pc, schemaVars>>

\* mail_entry.has(namespace_entry) && !mail_entry.get(namespace_entry).unsupported
supportedByMail(namespace_entry) ==
    IF namespace_entry \in DOMAIN mail_entries /\ ~mail_entries[namespace_entry]
    THEN VTrue
    ELSE VFalse

\* main(): cloneBrowserCompatData(bcd.webextensions, tcd.webextensions)
Clone ==
    /\ pc = "clone"
    /\ tcd' = cloneBrowserCompatData(bcd, tcd)
    /\ call' = [NoCall EXCEPT !.op = "cloneBrowserCompatData"]
    /\ before' = tcd
    /\ pc' = "toolkit"
    /\ ran' = ran \cup {"cloneBrowserCompatData"}
    /\ UNCHANGED <<bcd, override, mail_entries, browser_compat_data, logEntries, modified, errors, nCalls, schemaVars>>

\* main(): one iteration of the loop over the toolkit entries that calls
\* updateCompatData (the others `continue`).
ToolkitUpdate(namespace_entry) ==
    /\ pc = "toolkit"
    /\ LET namespace == Part(Split(namespace_entry), 0) IN
        \/ /\ namespace \in UNSUPPORTED_TOOLKIT_NAMESPACES
           /\ Update(namespace_entry, VFalse, FALSE)
        \/ /\ namespace \notin UNSUPPORTED_TOOLKIT_NAMESPACES
           /\ namespace \in REIMPLEMENTED_TOOLKIT_NAMESPACES
           /\ Update(namespace_entry, supportedByMail(namespace_entry), FALSE)

\* main(): one iteration of the loop over the browser entries that calls
\* updateCompatData.
BrowserUpdate(namespace_entry) ==
    /\ pc = "browser"
    /\ LET namespace == Part(Split(namespace_entry), 0) IN
        \/ /\ namespace \notin SUPPORTED_BROWSER_NAMESPACES
           /\ namespace \in REIMPLEMENTED_BROWSER_NAMESPACES
           /\ Update(namespace_entry, supportedByMail(namespace_entry), FALSE)
        \/ /\ namespace \notin SUPPORTED_BROWSER_NAMESPACES
           /\ namespace \notin REIMPLEMENTED_BROWSER_NAMESPACES
           /\ Update(namespace_entry, VFalse, FALSE)

\* main(): one iteration of the loop over the mail entries
\* (INCLUDE_MAILEXTENSIONS).
MailUpdate(namespace_entry) ==
    /\ pc = "mail"
    /\ LET namespace == Part(Split(namespace_entry), 0)
           isReimplemented == \/ namespace \in REIMPLEMENTED_TOOLKIT_NAMESPACES
                              \/ namespace \in REIMPLEMENTED_BROWSER_NAMESPACES
       IN  Update(namespace_entry,
                  IF mail_entries[namespace_entry] THEN VFalse ELSE VTrue,
                  ~isReimplemented)

\* main(): a loop over the entries of one source directory ends.
NextLoop ==
    /\ pc \in {"toolkit", "browser", "mail"}
    /\ pc' = CASE pc = "toolkit" -> "browser"
               [] pc = "browser" -> "mail"
               [] pc = "mail" -> "override"
    /\ UNCHANGED <<bcd, tcd, override, mail_entries, browser_compat_data, logEntries, modified, errors, call, before, nCalls, ran, schemaVars>>

\* main(): overrideBrowserCompatData(override.webextensions, tcd.webextensions)
Override ==
    /\ pc = "override"
    /\ override # NoOverride
    /\ LET st == overrideBrowserCompatData(override, tcd, <<>>)
       IN  /\ tcd' = st.tcd
           /\ modified' = st.modifiedEntry
    /\ call' = [NoCall EXCEPT !.op = "overrideBrowserCompatData"]
    /\ before' = tcd
    /\ pc' = "merge"
    /\ ran' = ran \cup {"overrideBrowserCompatData"}
    /\ UNCHANGED <<bcd, override, mail_entries, browser_compat_data, logEntries, errors, nCalls, schemaVars>>

\* main() that goes on to the merge without applying the override file it
\* was given.
SkipOverride_always ==
    /\ pc = "override"
    /\ pc' = "merge"
    /\ UNCHANGED <<bcd, tcd, override, mail_entries, browser_compat_data, logEntries, modified, errors, call, before, nCalls, ran, schemaVars>>

\* main(): there is no override file.
SkipOverride ==
    /\ pc = "override"
    /\ override = NoOverride
    /\ pc' = "merge"
    /\ UNCHANGED <<bcd, tcd, override, mail_entries, browser_compat_data, logEntries, modified, errors, call, before, nCalls, ran, schemaVars>>

\* main(): browser_compat_data = sortKeys(mergeObjects(bcd, tcd)).  The
\* merge modifies its first argument; sortKeys copies it with the keys of
\* every object in order, which a tree of this model already is.
Merge ==
    /\ pc = "merge"
    /\ bcd' = mergeObjects(bcd, tcd)
    /\ browser_compat_data' = mergeObjects(bcd, tcd)
    /\ call' = [NoCall EXCEPT !.op = "mergeObjects"]
    /\ before' = bcd
    /\ pc' = "reduce"
    /\ ran' = ran \cup {"mergeObjects"}
    /\ UNCHANGED <<tcd, override, mail_entries, logEntries, modified, errors, nCalls, schemaVars>>

\* main(): reduceBrowserCompatData(browser_compat_data.webextensions)
Reduce ==
    /\ pc = "reduce"
    /\ browser_compat_data' = reduceBrowserCompatData(browser_compat_data, <<>>, "").tcd
    /\ call' = [NoCall EXCEPT !.op = "reduceBrowserCompatData"]
    /\ before' = browser_compat_data
    /\ pc' = "check"
    /\ ran' = ran \cup {"reduceBrowserCompatData"}
    /\ UNCHANGED <<bcd, tcd, override, mail_entries, logEntries, modified, errors, nCalls, schemaVars>>

\* main(): MINIMIZE is off (--no-minimize).
SkipReduce ==
    /\ pc = "reduce"
    /\ pc' = "check"
    /\ UNCHANGED <<bcd, tcd, override, mail_entries, browser_compat_data, logEntries, modified, errors, call, before, nCalls, ran, schemaVars>>

\* main(): checkForMissingThunderbirdEntries(browser_compat_data.webextensions,
\* "webextensions")
Check ==
    /\ pc = "check"
    /\ errors' = checkForMissingThunderbirdEntries(browser_compat_data, <<>>, "webextensions")
    /\ call' = [NoCall EXCEPT !.op = "checkForMissingThunderbirdEntries"]
    /\ before' = browser_compat_data
    /\ pc' = "write"
    /\ ran' = ran \cup {"checkForMissingThunderbirdEntries"}
    /\ UNCHANGED <<bcd, tcd, override, mail_entries, browser_compat_data, logEntries, modified, nCalls, schemaVars>>

Init ==
    /\ bcd \in Baselines
    /\ tcd = EmptyTcd
    /\ override \in Overrides
    /\ mail_entries \in MailSchemas
    /\ pc = "clone"
    /\ InitRest

Next ==
    \/ Clone
    \/ \E namespace_entry \in ToolkitEntries : ToolkitUpdate(namespace_entry)
    \/ \E namespace_entry \in BrowserEntries : BrowserUpdate(namespace_entry)
    \/ \E namespace_entry \in DOMAIN mail_entries : MailUpdate(namespace_entry)
    \/ NextLoop
    \/ Override
    \/ SkipOverride
    \/ Merge
    \/ Reduce
    \/ SkipReduce
    \/ Check

\* One generation run.
Spec == Init /\ [][Next]_vars

-----------------------------------------------------------------------------
(* A generation run on a baseline with a namespace Thunderbird does not    *)
(* support: the update for `bookmarks` replaces the whole entity, so the   *)
(* members the baseline lists below it are not in the generated tree.      *)

BookmarksBaselines ==
    { Tree(<<"api", "tabs">> :> CompatNode(FirefoxChromeSupport("10", "5"))
           @@ <<"api", "tabs", "create">> :> CompatNode(FirefoxSupport(VTrue))
           @@ <<"api", "bookmarks">> :> CompatNode(FirefoxSupport("10"))
           @@ <<"api", "bookmarks", "create">> :> CompatNode(FirefoxSupport(create))
           @@ <<"api", "alarms">> :> CompatNode(FirefoxSupport("10"))) :
        create \in {VTrue, "10"} }

\* The mail schemas: without a namespace `bookmarks`, and with one.
BookmarksMailSchemas ==
    { [e \in {"tabs", "tabs.functions.create", "theme", "messages"} |-> FALSE],
      [e \in {"tabs", "tabs.functions.create", "theme", "messages", "bookmarks"} |-> FALSE] }

InitUnsupportedNamespace ==
    /\ bcd \in BookmarksBaselines
    /\ tcd = EmptyTcd
    /\ override \in Overrides
    /\ mail_entries \in BookmarksMailSchemas
    /\ pc = "clone"
    /\ InitRest

SpecUnsupportedNamespace == InitUnsupportedNamespace /\ [][Next]_vars

-----------------------------------------------------------------------------
(* The Compat Tree Updater alone: any sequence of updateCompatData calls   *)
(* on the tree main() starts from.                                         *)

InitUpdater ==
    /\ bcd = EmptyTcd
    /\ tcd = EmptyTcd
    /\ override = NoOverride
    /\ mail_entries = <<>>
    /\ pc = "update"
    /\ InitRest

NextUpdater ==
    \E namespace_entry \in EntryPaths, expected \in ExpectedValues, skipFlatPropsCheck \in BOOLEAN :
        Update(namespace_entry, expected, skipFlatPropsCheck)

SpecUpdater == InitUpdater /\ [][NextUpdater]_vars

-----------------------------------------------------------------------------
(* The Compat Tree Updater on entries that share names: members of         *)
(* different groups and namespaces with one name, a parameter and a        *)
(* property with one name.                                                 *)

SameNamePaths ==
    { "tabs.functions.get",
      "tabs.types.get",
      "tabs.events.onCreated",
      "windows.functions.get",
      "tabs.functions.get.parameters.url",
      "tabs.functions.get.properties.url" }

NextSameNames ==
    \E namespace_entry \in SameNamePaths, expected \in {VFalse, VTrue, "5"} :
        Update(namespace_entry, expected, FALSE)

SpecSameNames == InitUpdater /\ [][NextSameNames]_vars

-----------------------------------------------------------------------------
(* The Compat Tree Updater on trees in which the properties of a parameter *)
(* are written in several notations, as the baseline data writes them.     *)

\* The entries of the properties: of a confirmed flat property, of a
\* parameter that is in neither table, of a known false positive.
NotationPaths ==
    { "tabs.functions.create.parameters.createProperties.properties.url",
      "tabs.functions.update.parameters.updateProperties.properties.url",
      "bookmarks.functions.search.parameters.query.properties.query" }

\* The notations in which a tree writes the property url of the parameters
\* of tabs.create and tabs.update.
NotationKeys == SUBSET {"_parameter", "_value", "flat"}

\* The objects of the function api.tabs.<name> whose parameter is param,
\* with the property url written in the notations of keys.
NotationFunction(name, param, keys) ==
    LET fn == <<"api", "tabs", name>>
        children == (IF "_parameter" \in keys THEN {param \o "_url_parameter"} ELSE {})
                    \cup (IF "_value" \in keys THEN {"url_value"} ELSE {})
                    \cup (IF "flat" \in keys THEN {"url"} ELSE {})
    IN  [q \in {fn} \cup {Append(fn, k) : k \in children} |-> CompatNode(ThunderbirdSupport("5"))]

\* The trees the calls start from: the clone of a baseline with tabs.create
\* and tabs.update.
NotationTrees ==
    { Tree(NotationFunction("create", "createProperties", keys)
           @@ NotationFunction("update", "updateProperties", keys)
           @@ (<<"api", "tabs">> :> EmptyNode)) : keys \in NotationKeys }

InitNotation ==
    /\ bcd = EmptyTcd
    /\ tcd \in NotationTrees
    /\ override = NoOverride
    /\ mail_entries = <<>>
    /\ pc = "update"
    /\ InitRest

NextNotation ==
    \E namespace_entry \in NotationPaths, expected \in {VFalse, VTrue}, skipFlatPropsCheck \in BOOLEAN :
        Update(namespace_entry, expected, skipFlatPropsCheck)

SpecNotation == InitNotation /\ [][NextNotation]_vars

-----------------------------------------------------------------------------
(* The Override Applier alone: overrideBrowserCompatData on the generated  *)
(* trees and the override files below.                                     *)

\* A set of alternatives for one object of a tree: absent, or present with
\* one of the given nodes.
Absent == <<>>
Present(p, nodes) == {p :> node : node \in nodes}

\* Generated trees: what clone and update leave, thunderbird entries only.
GeneratedTrees ==
    { Tree(tabs @@ create @@ url) :
        tabs \in Present(<<"api", "tabs">>, {EmptyNode, CompatNode(ThunderbirdSupport(VFalse)), CompatNode(ThunderbirdSupport(VTrue))}),
        create \in Present(<<"api", "tabs", "create">>, {CompatNode(ThunderbirdSupport(v)) : v \in Versions}),
        url \in {Absent} \cup Present(<<"api", "tabs", "create", "url">>, {CompatNode(ThunderbirdSupport(VTrue)), CompatNode(ThunderbirdSupport("5"))}) }

\* Override files: sparse trees, with thunderbird entries (one of them
\* without version_added), entries of another vendor only, and objects the
\* generated tree does not have.
OverrideTrees ==
    { Tree(tabs @@ create @@ url @@ query) :
        tabs \in Present(<<"api", "tabs">>, {EmptyNode, CompatNode(ThunderbirdSupport("5"))}),
        create \in {Absent} \cup Present(<<"api", "tabs", "create">>,
                      {EmptyNode, CompatNode(FirefoxSupport("10"))}
                      \cup {CompatNode(ThunderbirdSupport(v)) : v \in {VFalse, VTrue, "5", Undefined}}),
        url \in {Absent} \cup {<<"api", "tabs", "create", "url">> :> CompatNode(ThunderbirdSupport(VTrue))
                                @@ <<"api", "tabs", "create">> :> EmptyNode},
        query \in {Absent} \cup Present(<<"api", "tabs", "query">>, {CompatNode(ThunderbirdSupport(VTrue)), CompatNode(FirefoxSupport("10"))})
                    \cup {<<"api", "tabs", "query">> :> EmptyNode
                            @@ <<"api", "tabs", "query", "queryInfo">> :> CompatNode(ThunderbirdSupport("5"))} }

InitOverride ==
    /\ bcd = EmptyTcd
    /\ tcd \in GeneratedTrees
    /\ override \in OverrideTrees
    /\ mail_entries = <<>>
    /\ pc = "override"
    /\ InitRest

NextOverride == Override

SpecOverride == InitOverride /\ [][NextOverride]_vars

-----------------------------------------------------------------------------
(* The Tree Reducer alone: reduceBrowserCompatData applied, and applied    *)
(* again, to the merged trees below.                                       *)

\* { thunderbird: { version_added: v }, firefox: { version_added: w } }
ThunderbirdFirefoxSupport(v, w) == [vendor \in {"thunderbird", "firefox"} |-> IF vendor = "thunderbird" THEN v ELSE w]

ReducerNodes ==
    { EmptyNode,
      CompatNode(ThunderbirdSupport(VTrue)),
      CompatNode(ThunderbirdSupport(VFalse)),
      CompatNode(ThunderbirdFirefoxSupport(VTrue, "10")),
      CompatNode(FirefoxSupport("10")) }

\* Merged trees: a namespace, a member, two parameters and a property.
ReducerTrees ==
    { Tree(tabs @@ create @@ createProperties @@ url @@ callback) :
        tabs \in Present(<<"api", "tabs">>, {EmptyNode, CompatNode(ThunderbirdSupport(VTrue))}),
        create \in Present(<<"api", "tabs", "create">>, ReducerNodes),
        createProperties \in Present(<<"api", "tabs", "create", "createProperties">>, ReducerNodes),
        url \in {Absent} \cup Present(<<"api", "tabs", "create", "createProperties", "url">>, ReducerNodes),
        callback \in {Absent} \cup Present(<<"api", "tabs", "create", "callback">>, {CompatNode(ThunderbirdSupport(VTrue)), CompatNode(ThunderbirdSupport(VFalse))}) }

\* The number of times the reducer is run on one tree.
MaxReductions == 2

InitReducer ==
    /\ bcd = EmptyTcd
    /\ tcd = EmptyTcd
    /\ override = NoOverride
    /\ mail_entries = <<>>
    /\ pc = "reduce"
    /\ browser_compat_data \in ReducerTrees
    /\ logEntries = {}
    /\ modified = NotModified
    /\ errors = {}
    /\ call = NoCall
    /\ before = EmptyTcd
    /\ nCalls = 0
    /\ ran = {}
    /\ namespaces = Arr(<<>>)
    /\ entries = <<>>
    /\ schemaCall = NoSchemaCall

\* reduceBrowserCompatData(browser_compat_data.webextensions), run on its
\* own output as well.
Rereduce ==
    /\ nCalls < MaxReductions
    /\ browser_compat_data' = reduceBrowserCompatData(browser_compat_data, <<>>, "").tcd
    /\ call' = [NoCall EXCEPT !.op = "reduceBrowserCompatData"]
    /\ before' = browser_compat_data
    /\ nCalls' = nCalls + 1
    /\ ran' = ran \cup {"reduceBrowserCompatData"}
    /\ UNCHANGED <<bcd, tcd, override, mail_entries, logEntries, modified, errors, pc, schemaVars>>

NextReducer == Rereduce

SpecReducer == InitReducer /\ [][NextReducer]_vars

-----------------------------------------------------------------------------
(* The Reference Resolver/Collector alone: the namespaces of the schema    *)
(* lists below are walked one after the other, as the loops of main() do.  *)

\* { namespace: name, types: types, functions: [{ name: "create",
\*   parameters: parameters }] }
NamespaceObj(name, types, parameters) ==
    Obj(<< <<"namespace", Prim(name)>>,
           <<"types", Arr(types)>>,
           <<"functions", Arr(<< Obj(<< <<"name", Prim("create")>>,
                                        <<"parameters", Arr(parameters)>> >>) >>)>> >>)

\* { id: id, type: "object", description: description }
TypeDef(id, description) ==
    Obj(<< <<"id", Prim(id)>>, <<"type", Prim("object")>>, <<"description", Prim(description)>> >>)

\* { id: id, type: "object", properties: { [property]: { $ref: ref } } }
TypeWithRef(id, property, ref) ==
    Obj(<< <<"id", Prim(id)>>, <<"type", Prim("object")>>,
           <<"properties", Obj(<< <<property, Obj(<< <<"$ref", Prim(ref)>> >>)>> >>)>> >>)

\* { name: name, $ref: ref, optional: true }
RefParameter(name, ref) ==
    Obj(<< <<"name", Prim(name)>>, <<"$ref", Prim(ref)>>, <<"optional", Prim("true")>> >>)

\* { name: "format", unsupported: true, choices: [{ type: "string", enum:
\*   ["png", "jpeg"] }, { type: "object", properties: { quality: { type:
\*   "integer" } } }] }
ChoicesParameter ==
    Obj(<< <<"name", Prim("format")>>, <<"unsupported", Prim("true")>>,
           <<"choices", Arr(<< Obj(<< <<"type", Prim("string")>>,
                                      <<"enum", Arr(<<Prim("png"), Prim("jpeg")>>)>> >>),
                               Obj(<< <<"type", Prim("object")>>,
                                      <<"properties", Obj(<< <<"quality", Obj(<< <<"type", Prim("integer")>> >>)>> >>)>> >>) >>)>> >>)

\* The types of the namespace `tabs`: none, a type T, a type that refers to
\* itself (by its id or by its qualified id), two types that refer to each
\* other.
TabsTypes ==
    { <<>>,
      <<TypeDef("T", "tabs")>>,
      <<TypeWithRef("Node", "child", "Node")>>,
      <<TypeWithRef("Node", "child", "tabs.Node"), TypeDef("T", "tabs")>>,
      <<TypeWithRef("A", "b", "B"), TypeWithRef("B", "a", "A")>> }

\* The parameters of tabs.create.
TabsParameters ==
    { <<RefParameter("p", ref)>> : ref \in {"T", "tabs.T", "windows.T", "other.T", "Node", "A"} }
    \cup { <<ChoicesParameter>>, <<RefParameter("p", "windows.T"), RefParameter("q", "Node")>> }

\* The lists all_namespaces of the model: `tabs`, `windows` and `manifest`,
\* the last two with or without a type T of their own, in two orders.
SchemaLists ==
    { Arr(IF tabsFirst THEN <<tabs, manifest, windows, messages>> ELSE <<manifest, messages, windows, tabs>>) :
        tabsFirst \in BOOLEAN,
        tabs \in {NamespaceObj("tabs", types, parameters) : types \in TabsTypes, parameters \in TabsParameters},
        manifest \in {NamespaceObj("manifest", types, <<>>) : types \in {<<>>, <<TypeDef("T", "manifest")>>}},
        windows \in {NamespaceObj("windows", types, <<RefParameter("w", "T")>>) : types \in {<<>>, <<TypeDef("T", "windows")>>}},
        messages \in {NamespaceObj("messages", <<TypeDef("T", "messages")>>, <<>>)} }

InitCollector ==
    /\ bcd = EmptyTcd
    /\ tcd = EmptyTcd
    /\ override = NoOverride
    /\ mail_entries = <<>>
    /\ pc = "collect"
    /\ browser_compat_data = EmptyTcd
    /\ logEntries = {}
    /\ modified = NotModified
    /\ errors = {}
    /\ call = NoCall
    /\ before = EmptyTcd
    /\ nCalls = 0
    /\ ran = {}
    /\ namespaces \in SchemaLists
    /\ entries = <<>>
    /\ schemaCall = NoSchemaCall

\* main(): one iteration of a loop `for (const namespaceObj of ...)`:
\* collectNamespaceEntriesAndResolveRefs(namespaceObj, entries, all_namespaces)
\* with a new map, for the i-th object of all_namespaces.
Collect(i) ==
    /\ schemaCall.op = "collectNamespaceEntriesAndResolveRefs" => i > schemaCall.index
    /\ LET st == collectNamespace(namespaces, i)
       IN  /\ namespaces' = st.namespaces
           /\ entries' = st.entries
           /\ schemaCall' = [op |-> "collectNamespaceEntriesAndResolveRefs", index |-> i,
                             before |-> namespaces, calls |-> st.calls,
                             resolved |-> st.resolved, overflow |-> st.overflow]
    /\ UNCHANGED mainVars

NextCollector == \E i \in 1..Len(namespaces.a) : Collect(i)

SpecCollector == InitCollector /\ [][NextCollector]_vars

-----------------------------------------------------------------------------
(* The Import Resolver alone: processImports over a list of namespaces.    *)

\* { id: id, type: "object", $import: target }
TypeWithImport(id, target) ==
    Obj(<< <<"id", Prim(id)>>, <<"type", Prim("object")>>, <<"$import", Prim(target)>> >>)

\* { name: name, type: "function" }
FunctionDef(name) == Obj(<< <<"name", Prim(name)>>, <<"type", Prim("function")>> >>)

\* obj with the key added when the value is not undefined.
WithKey(obj, key, v) == IF v = JsUndefined THEN obj ELSE Put(obj, key, v)

\* { namespace: "action", description: "action", min_manifest_version: 3,
\*   types: types, functions: [setTitle, openPopup] }
ActionNamespace(types) ==
    WithKey(Obj(<< <<"namespace", Prim("action")>>,
                   <<"description", Prim("action")>>,
                   <<"min_manifest_version", Prim("3")>> >>),
            "types", types)

\* The namespace that imports: { namespace: "browserAction", $import:
\*   target, description, types, functions }
ImportingNamespace(target, description, types, functions) ==
    WithKey(WithKey(WithKey(Obj(<< <<"namespace", Prim("browserAction")>>,
                                   <<"$import", Prim(target)>> >>),
                            "description", description),
                    "types", types),
            "functions", functions)

\* { namespace: "base", types: [{ id: "Base", type: "object", description:
\*   "base" }] }
BaseNamespace ==
    Obj(<< <<"namespace", Prim("base")>>, <<"types", Arr(<<TypeDef("Base", "base")>>)>> >>)

\* The lists of namespaces of the model: `browserAction` imports `action`,
\* the manifest base or a definition that does not exist; it has or has not
\* a description and functions of its own; a type that imports `Base` is in
\* none of the namespaces, in the importing one or in the imported one; the
\* importing namespace is the first or the last of the list.
ImportLists ==
    { Arr(IF importerFirst THEN <<importer, action, BaseNamespace>> ELSE <<BaseNamespace, action, importer>>) :
        importerFirst \in BOOLEAN,
        action \in { Put(ActionNamespace(types), "functions", Arr(<<FunctionDef("setTitle"), FunctionDef("openPopup")>>)) :
                       types \in {JsUndefined, Arr(<<TypeWithImport("Details", "Base")>>)} },
        importer \in { ImportingNamespace(target, description, types, functions) :
                         target \in {"action", "manifest.ManifestBase", "missing"},
                         description \in {JsUndefined, Prim("browserAction")},
                         types \in {JsUndefined, Arr(<<TypeWithImport("Own", "Base")>>)},
                         functions \in {JsUndefined, Arr(<<FunctionDef("getBadgeText")>>)} } }

InitImports ==
    /\ bcd = EmptyTcd
    /\ tcd = EmptyTcd
    /\ override = NoOverride
    /\ mail_entries = <<>>
    /\ pc = "imports"
    /\ browser_compat_data = EmptyTcd
    /\ logEntries = {}
    /\ modified = NotModified
    /\ errors = {}
    /\ call = NoCall
    /\ before = EmptyTcd
    /\ nCalls = 0
    /\ ran = {}
    /\ namespaces \in ImportLists
    /\ entries = <<>>
    /\ schemaCall = NoSchemaCall

\* main(): processImports(namespaces), once for a list of namespaces read.
ProcessImports ==
    /\ schemaCall.op = ""
    /\ namespaces' = processImports(namespaces)
    /\ schemaCall' = [op |-> "processImports", before |-> namespaces]
    /\ UNCHANGED <<entries, mainVars>>

NextImports == ProcessImports

SpecImports == InitImports /\ [][NextImports]_vars

-----------------------------------------------------------------------------
(* Claims about the Compat Tree Updater.                                   *)

\* The value of __compat.support.thunderbird.version_added at path p of t,
\* undefined when there is no such object.
Thunderbird(t, p) ==
    IF p \in DOMAIN t THEN VersionAdded(t[p], "thunderbird") ELSE Undefined

\* The last call was updateCompatData, and what it handled.
Updated == call.op = "updateCompatData"
LastUpdate == updateCompatData(before, call.namespace_entry, call.expected, {}, call.skipFlatPropsCheck)

\* The scenario of C1: the last call was made by main() for an entry of a
\* reimplemented namespace that the mail schema has and does not mark
\* unsupported, the call handled the entry's own node, and the baseline
\* holds firefox version_added "10" for that node.
C1_Scenario ==
    /\ Updated
    /\ pc \in {"toolkit", "browser", "mail"}
    /\ Part(Split(call.namespace_entry), 0) \in
            REIMPLEMENTED_TOOLKIT_NAMESPACES \cup REIMPLEMENTED_BROWSER_NAMESPACES
    /\ supportedByMail(call.namespace_entry) = VTrue
    /\ LastUpdate.terminal \in DOMAIN bcd
    /\ VersionAdded(bcd[LastUpdate.terminal], "firefox") = "10"

\* C1 as stated: in that scenario the thunderbird version_added of the node
\* is true after the call.
C1_Original ==
    C1_Scenario => Thunderbird(tcd, LastUpdate.terminal) = VTrue

\* C1 (amended): in that scenario the thunderbird version_added of the node
\* is still the string "10" the clone copied, when the call is the first
\* one after the clone and whenever the copied "10" was still there before
\* the call.
C1_CopiedVersionIsKept ==
    /\ (C1_Scenario /\ nCalls = 1) =>
            Thunderbird(tcd, LastUpdate.terminal) = "10"
    /\ (C1_Scenario /\ Thunderbird(before, LastUpdate.terminal) = "10") =>
            Thunderbird(tcd, LastUpdate.terminal) = "10"

\* The call of the scenario was made with true, right after the clone.
C1_Witness ==
    /\ C1_Scenario /\ nCalls = 1
    /\ call.expected = VTrue
    /\ call.namespace_entry = "tabs.functions.create"
    /\ Thunderbird(tcd, LastUpdate.terminal) = "10"

\* C2: after any sequence of updateCompatData calls on the empty tree, no
\* node whose thunderbird version_added is false has a descendant whose
\* thunderbird version_added is true or a version string.
C2_UnsupportedIsAbsorbing ==
    \A p \in DOMAIN tcd : \A q \in DOMAIN tcd :
        (IsPrefix(p, q) /\ p # q /\ Thunderbird(tcd, p) = VFalse)
            => ~Truthy(Thunderbird(tcd, q))

\* A truthy update went through an unsupported node that has children and
\* turned it into a supported one with a child that is still unsupported.
C2_Witness ==
    /\ Updated /\ Truthy(call.expected)
    /\ \E p \in DOMAIN before : \E q \in DOMAIN before :
        /\ IsPrefix(p, q) /\ p # q
        /\ Thunderbird(before, p) = VFalse
        /\ Thunderbird(tcd, p) = call.expected
        /\ Thunderbird(tcd, q) = VFalse

\* C3: a call with a truthy desired value leaves every node whose
\* thunderbird version_added was already truthy with exactly that value.
C3_NoDowngradeByTruthyUpdate ==
    (Updated /\ Truthy(call.expected)) =>
        \A p \in DOMAIN before :
            Truthy(Thunderbird(before, p)) =>
                Thunderbird(tcd, p) = Thunderbird(before, p)

\* An existing "10" on the path survived a desired true, or an existing true
\* survived a desired "5".
C3_Witness ==
    /\ Updated
    /\ \E p \in LastUpdate.visited :
        \/ call.expected = VTrue /\ Thunderbird(before, p) = "10" /\ Thunderbird(tcd, p) = "10"
        \/ call.expected = "5" /\ Thunderbird(before, p) = VTrue /\ Thunderbird(tcd, p) = VTrue

\* C4: after a call with a truthy desired value, every node the call
\* handled whose thunderbird version_added was false or unset before stores
\* exactly the desired value.
C4_SupportedWinsOverFalse ==
    (Updated /\ Truthy(call.expected)) =>
        \A p \in LastUpdate.visited :
            ~Truthy(Thunderbird(before, p)) =>
                Thunderbird(tcd, p) = call.expected

\* A version string was stored over a prior false at the namespace, the
\* member and a sub-entry in one call.
C4_Witness ==
    /\ Updated /\ call.expected = "5"
    /\ \E p \in LastUpdate.visited : \E q \in LastUpdate.visited : \E r \in LastUpdate.visited :
        /\ Len(p) = 2 /\ Len(q) = 3 /\ Len(r) = 4
        /\ Thunderbird(before, p) = VFalse /\ Thunderbird(tcd, p) = "5"
        /\ Thunderbird(before, q) = VFalse /\ Thunderbird(tcd, q) = "5"
        /\ Thunderbird(before, r) = VFalse /\ Thunderbird(tcd, r) = "5"

\* C5: a call with a falsy desired value that reaches the terminal segment
\* leaves, at that position, a compat leaf with thunderbird version_added
\* false and no children.
C5_FalsyTerminalReplace ==
    (Updated /\ ~Truthy(call.expected) /\ LastUpdate.terminal # <<>>) =>
        /\ LastUpdate.terminal \in DOMAIN tcd
        /\ tcd[LastUpdate.terminal] = newEntry(call.expected)
        /\ ChildKeys(tcd, LastUpdate.terminal) = {}

\* The terminal node was supported and had children before the call.
C5_Witness ==
    /\ Updated /\ ~Truthy(call.expected) /\ LastUpdate.terminal # <<>>
    /\ Truthy(Thunderbird(before, LastUpdate.terminal))
    /\ ChildKeys(before, LastUpdate.terminal) # {}
    /\ ChildKeys(tcd, LastUpdate.terminal) = {}

\* C6 as stated: after a call with a falsy desired value every node that
\* existed before and is not the terminal node is unchanged.
C6_Original ==
    (Updated /\ ~Truthy(call.expected)) =>
        \A p \in DOMAIN before :
            p # LastUpdate.terminal => (p \in DOMAIN tcd /\ tcd[p] = before[p])

\* C6 (amended): after a call with a falsy desired value every node that
\* existed before and is neither the terminal node nor below it is
\* unchanged and keeps its children, and every node created is an
\* unsupported leaf on the path.
C6_FalsyUpdateFrame ==
    (Updated /\ ~Truthy(call.expected)) =>
        /\ \A p \in DOMAIN before :
            (LastUpdate.terminal = <<>> \/ ~IsPrefix(LastUpdate.terminal, p))
                => (p \in DOMAIN tcd /\ tcd[p] = before[p])
        /\ \A p \in DOMAIN tcd \ DOMAIN before :
            p \in LastUpdate.visited /\ tcd[p] = newEntry(call.expected)

\* A falsy call went through an existing supported node, left it alone and
\* created a missing node below it.
C6_Witness ==
    /\ Updated /\ ~Truthy(call.expected)
    /\ \E p \in LastUpdate.visited : \E q \in LastUpdate.visited :
        /\ p \in DOMAIN before /\ Truthy(Thunderbird(before, p))
        /\ tcd[p] = before[p]
        /\ IsPrefix(p, q) /\ q \notin DOMAIN before
        /\ Thunderbird(tcd, q) = VFalse

-----------------------------------------------------------------------------
(* Claims about the Tree Reducer.                                          *)

Reduced == call.op = "reduceBrowserCompatData"

\* The objects the last reduction removed.
Removed == DOMAIN before \ DOMAIN browser_compat_data

\* C7: reducing the output of a reduction again removes nothing: the tree
\* after the second run equals the tree after the first.
C7_ReducerIdempotent ==
    (Reduced /\ nCalls >= 2) => browser_compat_data = before

\* The first run removed something and the second run was made.
C7_Witness ==
    /\ Reduced /\ nCalls = 2
    /\ \E t \in ReducerTrees :
        /\ reduceBrowserCompatData(t, <<>>, "").tcd = before
        /\ t # before
    /\ ChildKeys(before, <<"api", "tabs", "create">>) # {}

\* The path of the parent of the object at c.
Parent(c) == SubSeq(c, 1, Len(c) - 1)

\* C8: a reduction only removes objects, and every removed object is, or is
\* below, a removed child c such that the parent of c lists thunderbird
\* alone, the subtree of c holds support data, and every support object in
\* the subtree of c equals the parent's; no namespace or member object is
\* removed.
C8_ReducerDeletionSafe ==
    Reduced =>
        /\ \A q \in DOMAIN browser_compat_data :
            q \in DOMAIN before /\ browser_compat_data[q] = before[q]
        /\ \A q \in Removed :
            /\ Len(q) > 3
            /\ \E c \in Removed :
                /\ IsPrefix(c, q)
                /\ before[Parent(c)].compat
                /\ DOMAIN before[Parent(c)].support = {"thunderbird"}
                /\ \E r \in DOMAIN before : IsPrefix(c, r) /\ before[r].compat
                /\ \A r \in DOMAIN before :
                    (IsPrefix(c, r) /\ before[r].compat) =>
                        before[r].support = before[Parent(c)].support

\* A parameter was removed together with a property below it.
C8_Witness ==
    /\ Reduced
    /\ <<"api", "tabs", "create", "createProperties">> \in Removed
    /\ <<"api", "tabs", "create", "createProperties", "url">> \in Removed
    /\ <<"api", "tabs", "create", "callback">> \in DOMAIN browser_compat_data

-----------------------------------------------------------------------------
(* Claims about the Override Applier.                                      *)

Overridden == call.op = "overrideBrowserCompatData"

\* The override's thunderbird version_added for the object at p.
OverrideValue(p) == VersionAdded(override[p], "thunderbird")

\* The replacement rule as the claim states it.
C9_Replaces(p) ==
    /\ OverrideValue(p) # Undefined
    /\ OverrideValue(p) # Thunderbird(before, p)
    /\ ~(Thunderbird(before, p) \in VersionStrings /\ OverrideValue(p) = VTrue)

\* C9: for every __compat of the override, the thunderbird version_added of
\* the generated tree afterwards is the override's if the override defines
\* one, it differs from the current one and it is not true over a version
\* string, and it is the current one otherwise.
C9_OverrideReplacementRule ==
    Overridden =>
        \A p \in DOMAIN override :
            override[p].compat =>
                Thunderbird(tcd, p) =
                    IF C9_Replaces(p) THEN OverrideValue(p) ELSE Thunderbird(before, p)

\* One run in which an override of true left a generated "5" in place and
\* an override of "5" replaced a generated true.
C9_Witness ==
    /\ Overridden
    /\ \E p \in DOMAIN override : \E q \in DOMAIN override :
        /\ Thunderbird(before, p) = "5" /\ OverrideValue(p) = VTrue
        /\ Thunderbird(tcd, p) = "5"
        /\ Thunderbird(before, q) = VTrue /\ OverrideValue(q) = "5"
        /\ Thunderbird(tcd, q) = "5"

\* The objects of the generated tree the applier changed or added.
Changed == {p \in DOMAIN tcd : p \notin DOMAIN before \/ tcd[p] # before[p]}

\* C10: the diff returned holds the objects the applier changed or added,
\* with the override's data for them, and the objects above them, with no
\* __compat; it is undefined exactly when nothing was changed.
C10_OverrideDiffExact ==
    Overridden =>
        /\ \A p \in Changed : p \in DOMAIN modified /\ modified[p] = override[p]
        /\ \A p \in DOMAIN modified \ Changed :
            /\ modified[p] = EmptyNode
            /\ \E q \in Changed : IsPrefix(p, q)
        /\ (modified = NotModified) <=> (Changed = {})

\* One run that replaced a __compat, added a subtree and left another
\* __compat of the override unapplied.
C10_Witness ==
    /\ Overridden
    /\ \E p \in Changed : p \in DOMAIN before
    /\ \E p \in Changed : p \notin DOMAIN before
    /\ \E p \in DOMAIN override :
        override[p].compat /\ p \notin Changed /\ p \notin DOMAIN modified

\* The override changed nothing and the diff is undefined.
C10_WitnessEmpty ==
    /\ Overridden
    /\ \E p \in DOMAIN override : override[p].compat
    /\ modified = NotModified


-----------------------------------------------------------------------------
(* Claims about main().                                                    *)

\* The objects for which the override forced a thunderbird version_added:
\* the __compat objects of the diff that overrideBrowserCompatData returned.
Forced ==
    IF modified = NotModified THEN {}
    ELSE {p \in DOMAIN modified :
            modified[p].compat /\ "thunderbird" \in DOMAIN modified[p].support}

\* The closest object above p that the tree t has.
Surviving(t, p) ==
    LET above == {q \in DOMAIN t : IsPrefix(q, p) /\ q # p}
    IN  CHOOSE q \in above : \A r \in above : Len(r) <= Len(q)

\* A generation run has come to its end.
Finished == pc = "write"

\* C11 as stated: the reducer runs before the override applier, which runs
\* before the checker, and at the end of a run every value the override
\* forced is in the output.
C11_Original ==
    /\ call.op = "reduceBrowserCompatData" => "overrideBrowserCompatData" \notin ran
    /\ call.op = "overrideBrowserCompatData" => "checkForMissingThunderbirdEntries" \notin ran
    /\ Finished =>
            \A p \in Forced :
                Thunderbird(browser_compat_data, p) = modified[p].support["thunderbird"]

\* C11 (amended): the override applier runs before the merge and the
\* reducer, which run before the checker; at the end of a run every value
\* the override forced is in the output, or its object was removed by the
\* reducer and the closest object left above it lists thunderbird alone
\* with the forced value.
C11_PipelineOrder ==
    /\ call.op = "overrideBrowserCompatData" =>
            ran \cap {"mergeObjects", "reduceBrowserCompatData", "checkForMissingThunderbirdEntries"} = {}
    /\ call.op \in {"reduceBrowserCompatData", "checkForMissingThunderbirdEntries"} =>
            /\ "mergeObjects" \in ran
            /\ override # NoOverride => "overrideBrowserCompatData" \in ran
    /\ call.op = "reduceBrowserCompatData" => "checkForMissingThunderbirdEntries" \notin ran
    /\ Finished =>
            \A p \in Forced :
                \/ Thunderbird(browser_compat_data, p) = modified[p].support["thunderbird"]
                \/ /\ p \notin DOMAIN browser_compat_data
                   /\ "reduceBrowserCompatData" \in ran
                   /\ browser_compat_data[Surviving(browser_compat_data, p)]
                        = CompatNode(ThunderbirdSupport(modified[p].support["thunderbird"]))

\* A run in which the override forced true for an object and the reducer
\* then removed the object, its parent listing thunderbird true alone.
C11_Witness ==
    /\ Finished
    /\ ran = {"cloneBrowserCompatData", "updateCompatData", "overrideBrowserCompatData",
              "mergeObjects", "reduceBrowserCompatData", "checkForMissingThunderbirdEntries"}
    /\ \E p \in Forced :
        /\ Thunderbird(tcd, p) = VTrue
        /\ p \notin DOMAIN browser_compat_data
        /\ Thunderbird(browser_compat_data, Surviving(browser_compat_data, p)) = VTrue


-----------------------------------------------------------------------------
(* Claims about the Reference Resolver/Collector.                          *)

\* The last call walked a namespace.
Collected == schemaCall.op = "collectNamespaceEntriesAndResolveRefs"

\* The locations of the objects, arrays and primitives of v, from loc on.
RECURSIVE LocationsIn(_, _)
LocationsIn(v, loc) ==
    {loc} \cup
    IF v.t = "array" THEN UNION {LocationsIn(v.a[i], Append(loc, i)) : i \in 1..Len(v.a)}
    ELSE IF v.t = "object" THEN UNION {LocationsIn(v.p[i][2], Append(loc, i)) : i \in 1..Len(v.p)}
    ELSE {}

\* The locations, in the namespace walked last, of the objects that still
\* have a $ref.
RefsLeft ==
    {loc \in LocationsIn(namespaces.a[schemaCall.index], <<schemaCall.index>>) :
        HasOwnProperty(GetAt(namespaces, loc), "$ref")}

\* C12: a walk ends without going deeper than MaxDepth; no $ref value is
\* resolved twice along one recursion path; and a $ref that is left in the
\* namespace walked although its target exists is a recursive one, below an
\* object for which the same $ref value was resolved.
C12_ResolutionTerminates ==
    Collected =>
        /\ ~schemaCall.overflow
        /\ \A i, j \in 1..Len(schemaCall.resolved) :
            (i # j /\ IsPrefix(schemaCall.resolved[i].loc, schemaCall.resolved[j].loc)) =>
                schemaCall.resolved[i].ref # schemaCall.resolved[j].ref
        /\ \A loc \in RefsLeft :
            TruthyValue(handleRef(namespaces, GetAt(namespaces, loc), "")) =>
                \E i \in 1..Len(schemaCall.resolved) :
                    /\ IsPrefix(schemaCall.resolved[i].loc, loc)
                    /\ schemaCall.resolved[i].loc # loc
                    /\ schemaCall.resolved[i].ref = Get(GetAt(namespaces, loc), "$ref").v

\* Two types that refer to each other were resolved one inside the other,
\* and the $ref that closes the cycle was left in place.
C12_Witness ==
    /\ Collected /\ ~schemaCall.overflow
    /\ \E i, j \in 1..Len(schemaCall.resolved) : \E loc \in RefsLeft :
        /\ schemaCall.resolved[i].ref = "B" /\ schemaCall.resolved[j].ref = "A"
        /\ schemaCall.resolved[j].handledRefs = <<"B">>
        /\ IsPrefix(schemaCall.resolved[i].loc, schemaCall.resolved[j].loc)
        /\ IsPrefix(schemaCall.resolved[j].loc, loc)
        /\ Get(GetAt(namespaces, loc), "$ref") = Prim("A")


\* The names of the namespaces of the list that have a type with this id.
NamespacesDefining(list, id) ==
    {Get(list.a[j], "namespace").v : j \in
        {j \in 1..Len(list.a) :
            \E k \in 1..Len(Get(list.a[j], "types").a) :
                Get(Get(list.a[j], "types").a[k], "id") = Prim(id)}}

\* The search order of the claim for a $ref resolved in the last walk: the
\* namespace the $ref names, the namespace walked, manifest, then the
\* namespaces of the list in its order.
ClaimedOrder(ref) ==
    LET parts == Split(ref)
    IN  <<IF Len(parts) > 1 THEN parts[1] ELSE "",
          Get(schemaCall.before.a[schemaCall.index], "namespace").v,
          "manifest">>
        \o [j \in 1..Len(schemaCall.before.a) |-> Get(schemaCall.before.a[j], "namespace").v]

\* The first namespace of the order that is among the given ones.
FirstOf(order, names) ==
    order[CHOOSE i \in 1..Len(order) :
            order[i] \in names /\ \A j \in 1..(i - 1) : order[j] \notin names]

\* The $refs to the type T resolved in the last walk.
ResolvedT ==
    {i \in 1..Len(schemaCall.resolved) :
        LET parts == Split(schemaCall.resolved[i].ref) IN parts[Len(parts)] = "T"}

\* C13: a $ref to T is resolved to the definition of T of the first
\* namespace that has one, in the order: the namespace the $ref names, the
\* namespace walked, manifest, the namespaces of the list in its order.
\* (Every definition of T is described by the name of its namespace.)
C13_RefSearchOrder ==
    Collected =>
        \A i \in ResolvedT :
            Get(schemaCall.resolved[i].found, "description") =
                Prim(FirstOf(ClaimedOrder(schemaCall.resolved[i].ref),
                             NamespacesDefining(schemaCall.before, "T")))

\* Every namespace defines T, tabs comes first in the list, and the walk
\* of tabs resolved windows.T to the definition of windows.
C13_Witness ==
    /\ Collected
    /\ NamespacesDefining(schemaCall.before, "T") = {"tabs", "manifest", "windows", "messages"}
    /\ schemaCall.index = 1
    /\ Get(schemaCall.before.a[1], "namespace") = Prim("tabs")
    /\ \E i \in ResolvedT :
        /\ schemaCall.resolved[i].ref = "windows.T"
        /\ Get(schemaCall.resolved[i].found, "description") = Prim("windows")


\* C14: in one walk no two different objects are recorded under the same
\* path, and the entry at the path of a named object (one with a name or an
\* id) is that object.
C14_EntryPathsUnique ==
    Collected =>
        /\ \A i, j \in 1..Len(schemaCall.calls) :
            schemaCall.calls[i].path = schemaCall.calls[j].path =>
                schemaCall.calls[i].loc = schemaCall.calls[j].loc
        /\ \A i \in 1..Len(schemaCall.calls) :
            LET value == GetAt(namespaces, schemaCall.calls[i].loc)
            IN  (value.t = "object" /\ (HasOwnProperty(value, "name") \/ HasOwnProperty(value, "id"))) =>
                    \E k \in 1..Len(entries) :
                        /\ entries[k].path = schemaCall.calls[i].path
                        /\ entries[k].loc = schemaCall.calls[i].loc


-----------------------------------------------------------------------------
(* Claims about the paths of the output tree.                              *)

\* The node another entry would be mapped to by the same call on the same
\* tree.
TerminalOf(namespace_entry) ==
    updateCompatData(before, namespace_entry, call.expected, {}, call.skipFlatPropsCheck).terminal

\* C15 as stated: no other entry is mapped to the node the last call was
\* made for.
C15_Original ==
    (Updated /\ LastUpdate.terminal # <<>>) =>
        \A e \in SameNamePaths \ {call.namespace_entry} :
            TerminalOf(e) # LastUpdate.terminal

\* The entries of the form namespace.group.name.
IsMemberPath(e) == Len(Split(e)) = 3

\* C15 (amended): a call for a member entry namespace.group.name is made
\* for the node api.namespace.name, which has support data afterwards, and
\* creates or changes no node but this one and api.namespace; so another
\* member entry is mapped to the same node exactly when it has the same
\* namespace and the same name, whatever its group.
C15_MemberPathsDropGroup ==
    (Updated /\ IsMemberPath(call.namespace_entry)) =>
        LET parts == Split(call.namespace_entry)
            node == <<"api", parts[1], parts[3]>>
        IN  /\ LastUpdate.terminal = node
            /\ node \in DOMAIN tcd /\ tcd[node].compat
            /\ \A p \in DOMAIN tcd :
                (p \notin DOMAIN before \/ tcd[p] # before[p]) => p \in {node, <<"api", parts[1]>>}
            /\ \A e \in {e \in SameNamePaths : IsMemberPath(e)} :
                TerminalOf(e) = node <=>
                    (Split(e)[1] = parts[1] /\ Split(e)[3] = parts[3])

\* The function tabs.get was created as supported, and the call for the
\* type tabs.get then replaced the same node by an unsupported leaf.
C15_Witness ==
    /\ Updated
    /\ call.namespace_entry = "tabs.types.get" /\ call.expected = VFalse
    /\ Thunderbird(before, <<"api", "tabs", "get">>) = VTrue
    /\ Thunderbird(tcd, <<"api", "tabs", "get">>) = VFalse
    /\ TerminalOf("tabs.functions.get") = LastUpdate.terminal

-----------------------------------------------------------------------------
(* Claims about the notations of a property.                               *)

\* The last call was made for the property url of the parameter of
\* tabs.create or tabs.update.
PropertyCall ==
    /\ Updated
    /\ call.namespace_entry \in
         { "tabs.functions.create.parameters.createProperties.properties.url",
           "tabs.functions.update.parameters.updateProperties.properties.url" }

\* The object of the function of that call, the name of its parameter, and
\* the keys the object had when the call was made.
FunctionObject == <<"api", "tabs", Split(call.namespace_entry)[3]>>
ParameterName == Split(call.namespace_entry)[5]
FunctionKeys == ObjectKeys(before, FunctionObject)

\* The notations that match the property, and the node each one names.
MatchesParameter ==
    \E e \in FunctionKeys : StartsWith(e, ParameterName \o "_") /\ EndsWith(e, "_parameter")
MatchesValue == \E e \in FunctionKeys : EndsWith(e, "_value")
MatchesConfirmedFlat ==
    call.namespace_entry = "tabs.functions.create.parameters.createProperties.properties.url"
ParameterNode == Append(FunctionObject, ParameterName \o "_url_parameter")
ValueNode == Append(FunctionObject, "url_value")
FlatNode == Append(FunctionObject, "url")
NestedNode == FunctionObject \o <<ParameterName, "url">>

\* C18 as stated: the node written is chosen with the precedence nested <
\* flat < _value < _parameter.
C18_Original ==
    PropertyCall =>
        LastUpdate.terminal =
            IF MatchesParameter THEN ParameterNode
            ELSE IF MatchesValue THEN ValueNode
            ELSE IF MatchesConfirmedFlat THEN FlatNode
            ELSE NestedNode

\* C18 (amended): the node written for a property is chosen with the
\* precedence nested < _parameter < _value < confirmed flat: a confirmed
\* flat property is written under its own name, whatever else matches;
\* otherwise _value wins over _parameter, and the nested object is used
\* when nothing matches.  The node chosen is unsupported afterwards exactly
\* when the call asked for that.
C18_NotationPrecedence ==
    PropertyCall =>
        /\ LastUpdate.terminal =
               IF MatchesConfirmedFlat THEN FlatNode
               ELSE IF MatchesValue THEN ValueNode
               ELSE IF MatchesParameter THEN ParameterNode
               ELSE NestedNode
        /\ LastUpdate.terminal \in DOMAIN tcd
        /\ Thunderbird(tcd, LastUpdate.terminal) = VFalse <=> call.expected = VFalse

\* Both the _parameter and the _value notation matched an unconfirmed
\* property, and the _value node was written.
C18_Witness ==
    /\ PropertyCall
    /\ ~MatchesConfirmedFlat /\ MatchesParameter /\ MatchesValue
    /\ call.expected = VTrue
    /\ LastUpdate.terminal = ValueNode
    /\ Thunderbird(before, ValueNode) = "5"
    /\ Thunderbird(tcd, ValueNode) = "5"
    /\ Thunderbird(tcd, ParameterNode) = "5"

\* The flat check was enabled for the last call, and its property is a key
\* of the function object without being a confirmed flat property or a
\* known false positive.
UnconfirmedFlatCall ==
    /\ PropertyCall
    /\ ~MatchesConfirmedFlat
    /\ ~call.skipFlatPropsCheck
    /\ "url" \in FunctionKeys

\* C19: an unconfirmed flat key is not acted on: the info line is in the
\* log set, the node written is the one the _value, _parameter or nested
\* notation names, and the object under the flat key is as it was.
C19_UnconfirmedFlatIgnored ==
    UnconfirmedFlatCall =>
        /\ ("Info: Ignored unconfirmed but potential flat notation usage: " \o call.namespace_entry) \in logEntries
        /\ LastUpdate.terminal \in {ValueNode, ParameterNode, NestedNode}
        /\ LastUpdate.terminal # FlatNode
        /\ tcd[FlatNode] = before[FlatNode]

\* The property was written under the nested object although the function
\* object has a key of its name, and the info line was logged.
C19_Witness ==
    /\ UnconfirmedFlatCall
    /\ ~MatchesValue /\ ~MatchesParameter
    /\ call.expected = VFalse
    /\ LastUpdate.terminal = NestedNode
    /\ NestedNode \notin DOMAIN before
    /\ Thunderbird(tcd, NestedNode) = VFalse
    /\ Thunderbird(tcd, FlatNode) = "5"
    /\ ("Info: Ignored unconfirmed but potential flat notation usage: " \o call.namespace_entry) \in logEntries

-----------------------------------------------------------------------------
(* Claims about the Import Resolver.                                       *)

\* The namespaces of the list given to processImports that carry a $import
\* whose definition is in the list.
Importers ==
    { i \in 1..Len(schemaCall.before.a) :
        /\ HasOwnProperty(schemaCall.before.a[i], "$import")
        /\ StringOf(Get(schemaCall.before.a[i], "$import")) # "manifest.ManifestBase"
        /\ TruthyValue(findImported(schemaCall.before, 1, StringOf(Get(schemaCall.before.a[i], "$import")))) }

\* The definition the i-th namespace of the list imports, as it was given.
ImportedBy(i) ==
    findImported(schemaCall.before, 1, StringOf(Get(schemaCall.before.a[i], "$import")))

\* C16: when a $import is resolved, a key both sides define holds the
\* importer's elements followed by the imported ones when both values are
\* arrays, and the importer's value when that is neither an array nor an
\* object.
C16_ImportMergeRule ==
    schemaCall.op = "processImports" =>
        \A i \in Importers :
            \A k \in 1..Len(schemaCall.before.a[i].p) :
                LET key == schemaCall.before.a[i].p[k][1]
                    own == schemaCall.before.a[i].p[k][2]
                    imported == Get(importedFragment(ImportedBy(i)), key)
                    result == Get(namespaces.a[i], key)
                IN  (key # "$import" /\ imported # JsUndefined) =>
                        /\ ~TypeofObject(own) => result = own
                        /\ (own.t = "array" /\ imported.t = "array") =>
                               /\ result.t = "array"
                               /\ Len(result.a) = Len(own.a) + Len(imported.a)
                               /\ SubSeq(result.a, 1, Len(own.a)) = own.a

\* The locations, in the list processImports leaves, of the objects that
\* still carry a $import other than the manifest base although its
\* definition is in the list.
ImportsLeft ==
    {loc \in LocationsIn(namespaces, <<>>) :
        /\ HasOwnProperty(GetAt(namespaces, loc), "$import")
        /\ StringOf(Get(GetAt(namespaces, loc), "$import")) # "manifest.ManifestBase"
        /\ TruthyValue(findImported(namespaces, 1, StringOf(Get(GetAt(namespaces, loc), "$import"))))}

\* C17: after processImports no object of the namespaces carries a $import
\* whose definition is in the list, the manifest base apart; placeholders
\* inside an importing object or an imported fragment included, in either
\* order of the namespaces.
C17_ImportsResolvedCompletely ==
    schemaCall.op = "processImports" => ImportsLeft = {}

-----------------------------------------------------------------------------
(* Claims about the baseline.                                              *)

\* C20 as stated: no step of a run changes the baseline object.
C20_Original == [][bcd' = bcd]_vars

\* The data of the baseline t is still in u: every object of t is an object
\* of u, with the same version_added for every vendor for which the
\* generated tree has no entry in that object.
KeepsBaselineData(t, u) ==
    \A q \in DOMAIN t :
        /\ q \in DOMAIN u
        /\ \A vendor \in DOMAIN t[q].support :
               (q \notin DOMAIN tcd \/ vendor \notin DOMAIN tcd[q].support) =>
                   VersionAdded(u[q], vendor) = VersionAdded(t[q], vendor)

\* C20 (amended): clone, update, override, reduce and check leave the
\* baseline object as it is; the merge is the one step that writes to it,
\* and it removes no object and changes no entry but those the generated
\* tree defines.
C20_OnlyMergeWritesBaseline ==
    [][/\ bcd' # bcd => (pc = "merge" /\ "mergeObjects" \in ran')
       /\ KeepsBaselineData(bcd, bcd')]_vars

\* The merge has written a thunderbird entry into an object of the
\* baseline that had data for firefox only, and has added an object.
C20_Witness ==
    /\ call.op = "mergeObjects"
    /\ bcd # before
    /\ DOMAIN bcd # DOMAIN before
    /\ \E q \in DOMAIN before :
        /\ VersionAdded(before[q], "firefox") # Undefined
        /\ VersionAdded(before[q], "thunderbird") = Undefined
        /\ VersionAdded(bcd[q], "thunderbird") # Undefined
        /\ VersionAdded(bcd[q], "firefox") = VersionAdded(before[q], "firefox")

-----------------------------------------------------------------------------
(* Claims about the Consistency Checker.                                   *)

Checked == call.op = "checkForMissingThunderbirdEntries"

\* The path of an object as the checker writes it: webextensions.api.tabs
RECURSIVE DottedPath(_)
DottedPath(p) ==
    IF p = <<>> THEN "webextensions"
    ELSE DottedPath(SubSeq(p, 1, Len(p) - 1)) \o "." \o p[Len(p)]

\* The objects of t whose support lists vendors, thunderbird not among them.
MissingThunderbird(t) ==
    {p \in DOMAIN t :
        t[p].compat /\ DOMAIN t[p].support # {} /\ "thunderbird" \notin DOMAIN t[p].support}

\* An object above p is marked as unsupported by thunderbird.
BelowUnsupported(t, p) ==
    \E n \in 0..(Len(p) - 1) : VersionAdded(t[SubSeq(p, 1, n)], "thunderbird") = VFalse

\* C21 as stated: every object of the final tree that lists other vendors
\* without thunderbird is reported, wherever it is, and the tree is as it
\* was.
C21_Original ==
    Checked =>
        /\ \A p \in MissingThunderbird(browser_compat_data) : DottedPath(p) \in errors
        /\ browser_compat_data = before

\* C21 (amended): an object of the final tree that lists other vendors
\* without thunderbird is reported exactly when no object above it is
\* marked as unsupported by thunderbird; nothing else is reported, the tree
\* is as it was and the run goes on to write it.
C21_CheckerSkipsUnsupported ==
    Checked =>
        /\ \A p \in MissingThunderbird(browser_compat_data) :
               DottedPath(p) \in errors <=> ~BelowUnsupported(browser_compat_data, p)
        /\ \A e \in errors :
               \E p \in DOMAIN browser_compat_data :
                   /\ e = DottedPath(p)
                   /\ browser_compat_data[p].compat
                   /\ "thunderbird" \notin DOMAIN browser_compat_data[p].support
        /\ browser_compat_data = before
        /\ pc = "write"

\* The final tree lists bookmarks as unsupported by thunderbird and
\* bookmarks.create with data for firefox only, which is not reported.
C21_Witness ==
    /\ Checked
    /\ Thunderbird(browser_compat_data, <<"api", "bookmarks">>) = VFalse
    /\ <<"api", "bookmarks", "create">> \in MissingThunderbird(browser_compat_data)
    /\ VersionAdded(browser_compat_data[<<"api", "bookmarks", "create">>], "firefox") # Undefined
    /\ "webextensions.api.bookmarks.create" \notin errors
====
